---- MODULE Spec2Model ----
(***************************************************************************)
(* Anchor PDS: the check-in record server.                                 *)
(*                                                                         *)
(*   - the record store (anchor_checkins_v3) and its three queries,        *)
(*     src/backend/database/migrations.ts                                  *)
(*   - the validator and the token cache,                                  *)
(*     src/docs/anchor_pds_implementation_plan.md (shared/types.ts and     *)
(*     shared/auth.ts)                                                     *)
(*   - the request handlers, src/backend/routes/anchor.ts and              *)
(*     src/test/validation.test.ts (routes/atproto.ts)                     *)
(*                                                                         *)
(* Strings are coded: a string is [k |-> "str", c |-> code, n |-> length], *)
(* where the code identifies the content and the order of the codes is the *)
(* order of the strings in SQLite's BINARY collation (distinct strings     *)
(* have distinct codes).  Identities, record keys and tokens are opaque.   *)
(***************************************************************************)
EXTENDS Integers, Sequences, FiniteSets, TLC

VARIABLES
    store,      \* the rows of anchor_checkins_v3
    didCache,   \* shared/auth.ts didCache: token -> entry or NoEntry
    now,        \* Date.now()
    reqs,       \* the requests in flight: slot -> request
    created,    \* history: what each successful createRecord answered and stored
    feed,       \* the last direct call of a store query and its result
    walk,       \* a client paging through getCheckinsByAuthor by cursor
    settings,   \* the rows of anchor_user_settings_v1: did -> enableFeedPosts
    val         \* a direct call of validateCheckinRecord and its result

vars == <<store, didCache, now, reqs, created, feed, walk, settings, val>>

(***************************************************************************)
(* Bounds of the model.                                                    *)
(***************************************************************************)
MaxRows == 2        \* rows the store holds in Spec
MaxTicks == 3       \* clock steps of half a time-to-live
MaxBulk == 102      \* largest store of SpecFeed
MaxWalkRows == 3
MaxLocations == 2    \* elements of a locations array in SpecValidate    \* largest store of SpecWalk (also its record keys and timestamps)

(***************************************************************************)
(* Program constants.                                                      *)
(***************************************************************************)
GLOBAL_FEED_MAX == 100      \* Math.min(limit, 100)
DEFAULT_LIMIT == 50         \* limit = 50
CACHE_TTL == 3600000        \* 1 hour
MAX_TEXT == 300
MAX_CATEGORY == 50
MAX_CATEGORY_ICON == 10

CheckinCollection == [k |-> "str", c |-> 20, n |-> 22]    \* "app.dropanchor.checkin"

DIDs == {"did:plc:alice", "did:plc:bob"}

(***************************************************************************)
(* Values.                                                                 *)
(***************************************************************************)
Str(c, n) == [k |-> "str", c |-> c, n |-> n]
Null == [k |-> "null"]
Undefined == [k |-> "undefined"]
Arr(s) == [k |-> "arr", a |-> s]
Obj(f) == [k |-> "obj", o |-> f]
\* a TEXT cell holding JSON.stringify(v)
JsonText(v) == [k |-> "json", v |-> v]

\* JavaScript truthiness of a value or cell: null, undefined and "" are falsy.
Truthy(v) ==
    /\ v.k # "null"
    /\ v.k # "undefined"
    /\ (v.k = "str" => v.n > 0)

Min(a, b) == IF a < b THEN a ELSE b

(***************************************************************************)
(* Strings the model names.  Code 0 is the empty string; codes from        *)
(* 4001 to 5999 are the decimal strings of the whole                       *)
(* numbers -999 .. 999; codes above 10000 are strings Date.parse accepts,  *)
(* in collation order; every other code is free text.                      *)
(***************************************************************************)
EmptyStr == Str(0, 0)
GeoType == Str(10, 30)          \* "community.lexicon.location.geo"
AddressType == Str(11, 34)      \* "community.lexicon.location.address"
UnknownType == Str(12, 12)      \* "unknown.type"
Num(v) == [k |-> "num", v |-> v]
CoordStr(d) == Str(5000 + d, 2)
Timestamp(i) == Str(10000 + i, 20)

IsString(v) == v.k = "str"
\* Date.parse(s) is not NaN
DateParses(s) == s.c > 10000
\* parseFloat(s): [nan, v]
parseFloat(s) ==
    IF s.c > 4000 /\ s.c < 6000
    THEN [nan |-> FALSE, v |-> s.c - 5000]
    ELSE [nan |-> TRUE, v |-> 0]

\* JavaScript truthiness of a JSON value.
TruthyValue(v) ==
    /\ Truthy(v)
    /\ (v.k = "num" => v.v # 0)

\* v.name for a value that is not null: undefined unless v is an object with the field.
Get(v, name) == IF v.k = "obj" /\ name \in DOMAIN v.o THEN v.o[name] ELSE Undefined

(***************************************************************************)
(* Validator (shared/types.ts).  A result is the validated value or the    *)
(* Error thrown: its message and, where the message quotes one, the value  *)
(* it quotes.                                                              *)
(***************************************************************************)
Fail(msg) == [ok |-> FALSE, v |-> Undefined, msg |-> msg, tag |-> Undefined]
FailTag(msg, tag) == [ok |-> FALSE, v |-> Undefined, msg |-> msg, tag |-> tag]
Ok(v) == [ok |-> TRUE, v |-> v, msg |-> "", tag |-> Undefined]

\* Mutant: the bounds of the ranges are rejected too.
validateGeoLocationExclusive(location) ==
    LET latitude == Get(location, "latitude")
        longitude == Get(location, "longitude")
    IN  IF ~TruthyValue(latitude) \/ ~IsString(latitude)
        THEN Fail("geo location must have latitude as string")
        ELSE IF ~TruthyValue(longitude) \/ ~IsString(longitude)
        THEN Fail("geo location must have longitude as string")
        ELSE LET lat == parseFloat(latitude)
                 lng == parseFloat(longitude)
             IN  IF lat.nan \/ lat.v <= -90 \/ lat.v >= 90
                 THEN Fail("latitude must be a valid number between -90 and 90")
                 ELSE IF lng.nan \/ lng.v <= -180 \/ lng.v >= 180
                 THEN Fail("longitude must be a valid number between -180 and 180")
                 ELSE Ok(Obj(("$type" :> GeoType) @@ ("latitude" :> latitude)
                             @@ ("longitude" :> longitude)))

validateGeoLocation(location) ==
    LET latitude == Get(location, "latitude")
        longitude == Get(location, "longitude")
    IN  IF ~TruthyValue(latitude) \/ ~IsString(latitude)
        THEN Fail("geo location must have latitude as string")
        ELSE IF ~TruthyValue(longitude) \/ ~IsString(longitude)
        THEN Fail("geo location must have longitude as string")
        ELSE LET lat == parseFloat(latitude)
                 lng == parseFloat(longitude)
             IN  IF lat.nan \/ lat.v < -90 \/ lat.v > 90
                 THEN Fail("latitude must be a valid number between -90 and 90")
                 ELSE IF lng.nan \/ lng.v < -180 \/ lng.v > 180
                 THEN Fail("longitude must be a valid number between -180 and 180")
                 ELSE Ok(Obj(("$type" :> GeoType) @@ ("latitude" :> latitude)
                             @@ ("longitude" :> longitude)))

AddressFields == <<"street", "locality", "region", "country", "postalCode", "name">>
AddressErrors == << "street must be a string", "locality must be a string",
                    "region must be a string", "country must be a string",
                    "postalCode must be a string", "name must be a string" >>

validateAddressLocation(location) ==
    LET present == {i \in 1..Len(AddressFields) : Get(location, AddressFields[i]) # Undefined}
        bad == {i \in present : ~IsString(Get(location, AddressFields[i]))}
    IN  IF bad # {}
        THEN Fail(AddressErrors[CHOOSE i \in bad : \A j \in bad : i <= j])
        ELSE Ok(Obj([name \in {"$type"} \cup {AddressFields[i] : i \in present} |->
                        IF name = "$type" THEN AddressType ELSE Get(location, name)]))

\* One turn of the loop over record.locations.
ValidateLocation(location) ==
    IF location.k \in {"null", "undefined"}
    THEN Fail("TypeError: cannot read properties of null")
    ELSE IF ~TruthyValue(Get(location, "$type"))
    THEN Fail("Each location must have a $type field")
    ELSE IF Get(location, "$type") = GeoType THEN validateGeoLocation(location)
    ELSE IF Get(location, "$type") = AddressType THEN validateAddressLocation(location)
    ELSE FailTag("Unsupported location type", Get(location, "$type"))

\* Mutant: elements of an unsupported type are skipped, the others validated.
ValidateLocationsSkipUnsupported(locs) ==
    LET supported(l) == ~TruthyValue(Get(l, "$type")) \/ Get(l, "$type") \in {GeoType, AddressType}
        kept == SelectSeq(locs, supported)
        bad == {i \in 1..Len(kept) : ~ValidateLocation(kept[i]).ok}
    IN  IF bad # {}
        THEN ValidateLocation(kept[CHOOSE i \in bad : \A j \in bad : i <= j])
        ELSE Ok(Arr([i \in 1..Len(kept) |-> ValidateLocation(kept[i]).v]))

\* Mutant: every element is validated and the last error is the one thrown.
ValidateLocationsLastError(locs) ==
    LET bad == {i \in 1..Len(locs) : ~ValidateLocation(locs[i]).ok}
    IN  IF bad # {}
        THEN ValidateLocation(locs[CHOOSE i \in bad : \A j \in bad : i >= j])
        ELSE Ok(Arr([i \in 1..Len(locs) |-> ValidateLocation(locs[i]).v]))

\* The loop: the first element that throws ends it, else the validated elements.
ValidateLocations(locs) ==
    LET bad == {i \in 1..Len(locs) : ~ValidateLocation(locs[i]).ok}
    IN  IF bad # {}
        THEN ValidateLocation(locs[CHOOSE i \in bad : \A j \in bad : i <= j])
        ELSE Ok(Arr([i \in 1..Len(locs) |-> ValidateLocation(locs[i]).v]))

\* Mutant: the length ceiling taken as exclusive.
CategoryFailureOffByOne(v, max) ==
    IF ~IsString(v) \/ v.n = 0 THEN "empty"
    ELSE IF v.n >= max THEN "long"
    ELSE "none"

\* A category field that is present: non-empty string of at most max characters.
CategoryFailure(v, max) ==
    IF ~IsString(v) \/ v.n = 0 THEN "empty"
    ELSE IF v.n > max THEN "long"
    ELSE "none"

validateCheckinRecord(record) ==
    LET text == Get(record, "text")
        createdAt == Get(record, "createdAt")
        locations == Get(record, "locations")
        category == Get(record, "category")
        categoryGroup == Get(record, "categoryGroup")
        categoryIcon == Get(record, "categoryIcon")
        locs == IF locations.k = "arr" THEN ValidateLocations(locations.a) ELSE Ok(Arr(<< >>))
        keep(name, v) == IF v # Undefined THEN name :> v ELSE << >>
    IN  IF record.k \notin {"obj", "arr"}
        THEN Fail("Record must be an object")
        ELSE IF ~TruthyValue(text) \/ ~IsString(text)
        THEN Fail("Record must have a text field")
        ELSE IF text.n > MAX_TEXT
        THEN Fail("text must be 300 characters or less")
        ELSE IF ~TruthyValue(createdAt) \/ ~IsString(createdAt)
        THEN Fail("Record must have a createdAt field")
        ELSE IF ~DateParses(createdAt)
        THEN Fail("createdAt must be a valid ISO timestamp")
        ELSE IF locations # Undefined /\ locations.k # "arr"
        THEN Fail("locations must be an array")
        ELSE IF ~locs.ok
        THEN locs
        ELSE IF category # Undefined /\ CategoryFailure(category, MAX_CATEGORY) = "empty"
        THEN Fail("category must be a non-empty string")
        ELSE IF category # Undefined /\ CategoryFailure(category, MAX_CATEGORY) = "long"
        THEN Fail("category must be 50 characters or less")
        ELSE IF categoryGroup # Undefined /\ CategoryFailure(categoryGroup, MAX_CATEGORY) = "empty"
        THEN Fail("categoryGroup must be a non-empty string")
        ELSE IF categoryGroup # Undefined /\ CategoryFailure(categoryGroup, MAX_CATEGORY) = "long"
        THEN Fail("categoryGroup must be 50 characters or less")
        ELSE IF categoryIcon # Undefined /\ CategoryFailure(categoryIcon, MAX_CATEGORY_ICON) = "empty"
        THEN Fail("categoryIcon must be a non-empty string")
        ELSE IF categoryIcon # Undefined /\ CategoryFailure(categoryIcon, MAX_CATEGORY_ICON) = "long"
        THEN Fail("categoryIcon must be 10 characters or less")
        ELSE Ok(Obj(("$type" :> CheckinCollection) @@ ("text" :> text) @@ ("createdAt" :> createdAt)
                    @@ (IF locations # Undefined /\ Len(locs.v.a) > 0
                        THEN "locations" :> locs.v ELSE << >>)
                    @@ keep("category", category)
                    @@ keep("categoryGroup", categoryGroup)
                    @@ keep("categoryIcon", categoryIcon)))


(***************************************************************************)
(* Record store.                                                           *)
(***************************************************************************)
createAtUri(did, collection, rkey) == <<"at:", did, collection, rkey>>

\* Mutant: the cell's text handed on as it is, never a SyntaxError.
JSONparseRaw(cell) ==
    IF cell.k = "json" THEN [ok |-> TRUE, v |-> cell.v] ELSE [ok |-> TRUE, v |-> cell]

\* JSON.parse of a stored locations cell: the value, or a SyntaxError.
JSONparse(cell) ==
    IF cell.k = "json" THEN [ok |-> TRUE, v |-> cell.v] ELSE [ok |-> FALSE, v |-> Undefined]

\* The row -> StoredCheckin conversion the three queries share.
RowToCheckin(row) ==
    LET locationsJson == IF Truthy(row.locations) THEN row.locations ELSE Null
        parsed == IF Truthy(locationsJson) THEN JSONparse(locationsJson)
                  ELSE [ok |-> FALSE, v |-> Undefined]
    IN  [ type |-> CheckinCollection,
          id |-> row.id,
          authorDid |-> row.authorDid,
          text |-> row.text,
          createdAt |-> row.createdAt,
          locations |-> IF parsed.ok THEN parsed.v ELSE Undefined,
          category |-> IF Truthy(row.category) THEN row.category ELSE Undefined,
          categoryGroup |-> IF Truthy(row.categoryGroup) THEN row.categoryGroup ELSE Undefined,
          categoryIcon |-> IF Truthy(row.categoryIcon) THEN row.categoryIcon ELSE Undefined,
          uri |-> row.uri,
          cid |-> IF Truthy(row.cid) THEN row.cid ELSE Undefined ]

\* Mutant: one row more than asked for is fetched and not cut off.
LimitCountOneMore(n, limit) == IF limit < 0 THEN n ELSE Min(limit + 1, n)

\* SQLite's LIMIT: a negative limit is no limit.
LimitCount(n, limit) == IF limit < 0 THEN n ELSE Min(limit, n)

\* ORDER BY createdAt DESC LIMIT ?: every page the statement can return.  Rows
\* with one createdAt come in any order (breaks ranks them), the others in
\* descending createdAt; the page is the first LimitCount of them.
SelectOrdered(rows, limit) ==
    LET n == LimitCount(Cardinality(rows), limit)
        tied == {r \in rows : \E o \in rows : o # r /\ o.createdAt.c = r.createdAt.c}
        breaks == {b \in [tied -> 1..Cardinality(tied)] :
                      \A x, y \in tied : x # y => b[x] # b[y]}
        before(b, o, r) ==
            \/ o.createdAt.c > r.createdAt.c
            \/ o.createdAt.c = r.createdAt.c /\ o # r /\ b[o] < b[r]
        place(b) == [r \in rows |-> 1 + Cardinality({o \in rows : before(b, o, r)})]
        page(b) == LET at == place(b)
                   IN  [i \in 1..n |-> CHOOSE r \in rows : at[r] = i]
    IN  {page(b) : b \in breaks}

\* Mutant: the cursor is not applied.
CursorFilterIgnored(rows, cursor) == rows

\* Mutant: the cursor's own row is not excluded.
CursorFilterInclusive(rows, cursor) ==
    IF Truthy(cursor) THEN {r \in rows : r.createdAt.c <= cursor.c} ELSE rows

\* if (cursor) sql += " ... createdAt < ?": an absent or empty cursor does not filter.
CursorFilter(rows, cursor) ==
    IF Truthy(cursor) THEN {r \in rows : r.createdAt.c < cursor.c} ELSE rows

\* The pages getCheckinsByAuthor(authorDid, limit, cursor) can return on store st.
getCheckinsByAuthor(st, authorDid, limit, cursor) ==
    LET rows == CursorFilter({r \in st : r.authorDid = authorDid}, cursor)
    IN  {[i \in 1..Len(s) |-> RowToCheckin(s[i])] : s \in SelectOrdered(rows, limit)}

\* The pages getGlobalFeed(limit, cursor) can return on store st.
getGlobalFeed(st, limit, cursor) ==
    LET maxLimit == Min(limit, GLOBAL_FEED_MAX)
        rows == CursorFilter(st, cursor)
    IN  {[i \in 1..Len(s) |-> RowToCheckin(s[i])] : s \in SelectOrdered(rows, maxLimit)}

\* SELECT * WHERE uri = ?; rows[0], or null.
getCheckinByUri(st, uri) ==
    LET rows == {r \in st : r.uri = uri}
    IN  IF rows = {} THEN {Null} ELSE {RowToCheckin(r) : r \in rows}

\* Mutant: the row with record.categoryGroup bound to the category column too.
NewRowGroupTwice(rkey, authorDid, record, uri, cid) ==
    LET f == record.o
        opt(name) == IF name \in DOMAIN f /\ Truthy(f[name]) THEN f[name] ELSE Null
    IN  [ id |-> rkey,
          authorDid |-> authorDid,
          text |-> f["text"],
          createdAt |-> f["createdAt"],
          locations |-> IF "locations" \in DOMAIN f /\ f["locations"].k \notin {"null", "undefined"}
                        THEN JsonText(f["locations"]) ELSE Null,
          category |-> opt("categoryGroup"),
          categoryGroup |-> opt("categoryGroup"),
          categoryIcon |-> opt("categoryIcon"),
          uri |-> uri,
          cid |-> cid ]

\* The row createCheckinRecord inserts.
NewRow(rkey, authorDid, record, uri, cid) ==
    LET f == record.o
        opt(name) == IF name \in DOMAIN f /\ Truthy(f[name]) THEN f[name] ELSE Null
    IN  [ id |-> rkey,
          authorDid |-> authorDid,
          text |-> f["text"],
          createdAt |-> f["createdAt"],
          locations |-> IF "locations" \in DOMAIN f /\ f["locations"].k \notin {"null", "undefined"}
                        THEN JsonText(f["locations"]) ELSE Null,
          category |-> opt("category"),
          categoryGroup |-> opt("categoryGroup"),
          categoryIcon |-> opt("categoryIcon"),
          uri |-> uri,
          cid |-> cid ]

\* Mutant: the insert as an upsert, ON CONFLICT(id) DO UPDATE of the content.
createCheckinRecordUpsert(st, rkey, authorDid, record, uri, cid) ==
    LET new == NewRow(rkey, authorDid, record, uri, cid)
        merged(old) == [new EXCEPT !.authorDid = old.authorDid, !.uri = old.uri]
    IN  [ok |-> TRUE,
         store |-> IF \E r \in st : r.id = rkey
                   THEN {IF r.id = rkey THEN merged(r) ELSE r : r \in st}
                   ELSE st \cup {new}]

\* Mutant: the insert as INSERT OR REPLACE.
createCheckinRecordReplace(st, rkey, authorDid, record, uri, cid) ==
    [ok |-> TRUE,
     store |-> {r \in st : r.id # rkey} \cup {NewRow(rkey, authorDid, record, uri, cid)}]

\* INSERT INTO anchor_checkins_v3: id is the PRIMARY KEY, a second row with a
\* stored id is a constraint error and the table is left as it was.
createCheckinRecord(st, rkey, authorDid, record, uri, cid) ==
    IF \E r \in st : r.id = rkey
    THEN [ok |-> FALSE, store |-> st]
    ELSE [ok |-> TRUE, store |-> st \cup {NewRow(rkey, authorDid, record, uri, cid)}]

(***************************************************************************)
(* Identity cache (shared/auth.ts).                                        *)
(***************************************************************************)
Tokens == {"tokA", "tokB"}
commonPDSHosts == <<"https://bsky.social", "https://staging.bsky.dev">>

NoEntry == [k |-> "none"]
NoAuth == [k |-> "null"]
AuthContext(did, handle) == [k |-> "auth", did |-> did, handle |-> handle]

\* The account a token is a session of.  The accounts change their handle
\* once, one time-to-live after the start.
SessionDid(token) == IF token = "tokA" THEN "did:plc:alice" ELSE "did:plc:bob"
HandleAt(t) == IF t < CACHE_TTL THEN "one.bsky.social" ELSE "two.bsky.social"

\* What a getSession call bearing the token can come back with at time t: a
\* session (response.ok), a rejection, or a transport failure (fetch throws).
HostAnswers(host, token, t) ==
    {[kind |-> "ok", did |-> SessionDid(token), handle |-> HandleAt(t)],
     [kind |-> "rejected", did |-> "", handle |-> ""],
     [kind |-> "throws", did |-> "", handle |-> ""]}

\* Mutant: an entry is used whatever its expiry.
CacheHitAnyAge(cache, token, t) == cache[token] # NoEntry

\* Mutant: the comparison with the clock reversed.
CacheHitReversed(cache, token, t) == cache[token] # NoEntry /\ cache[token].expires < t

\* cached && cached.expires > Date.now()
CacheHit(cache, token, t) == cache[token] # NoEntry /\ cache[token].expires > t

\* Mutant: the entry keyed by a prefix that the tokens share.
CacheSetByPrefix(cache, token, answer, t) ==
    [tk \in Tokens |-> [k |-> "entry", did |-> answer.did, handle |-> answer.handle,
                        expires |-> t + CACHE_TTL]]

\* Mutant: the entry without the handle of the session.
CacheSetNoHandle(cache, token, answer, t) ==
    [cache EXCEPT ![token] = [k |-> "entry", did |-> answer.did, handle |-> "",
                              expires |-> t + CACHE_TTL]]

\* didCache.set(token, {...authContext, expires: Date.now() + CACHE_TTL})
CacheSet(cache, token, answer, t) ==
    [cache EXCEPT ![token] = [k |-> "entry", did |-> answer.did, handle |-> answer.handle,
                              expires |-> t + CACHE_TTL]]

\* authenticateRequest: the Authorization header's token, or none.
NoHeader == [scheme |-> "none", token |-> ""]
BasicHeader == [scheme |-> "Basic", token |-> ""]
Bearer(token) == [scheme |-> "Bearer", token |-> token]
HasBearer(header) == header.scheme = "Bearer"

(***************************************************************************)
(* Request handlers (routes/atproto.ts, routes/anchor.ts).  A handler's    *)
(* outcome is its response, the store it leaves and whether it ran a       *)
(* statement on the store.                                                 *)
(***************************************************************************)
Protected == {"createRecord", "listCheckins", "getGlobalFeed"}
Endpoints == Protected \cup {"getRecord"}

NoData == [k |-> "none"]
Response(status, error, message, data) ==
    [status |-> status, error |-> error, message |-> message, data |-> data]
Outcome(resp, st, touched) == [resp |-> resp, store |-> st, touched |-> touched]

AuthenticationRequired(st) ==
    Outcome(Response(401, "AuthenticationRequired", Fail("Authentication required"), NoData),
            st, FALSE)

\* The request body of createRecord: text that is not JSON, or { collection, record, rkey? }.
MalformedBody == [k |-> "malformed"]
Body(collection, record, rkey) ==
    Obj(("collection" :> collection) @@ ("record" :> record)
        @@ (IF rkey # Undefined THEN "rkey" :> rkey ELSE << >>))

\* Mutant: the uri always built from a generated key, the row stored under body.rkey.
CreateCheckedUriOfGenerated(authContext, body, st, genKey, genCid) ==
    LET validatedRecord == validateCheckinRecord(Get(body, "record"))
        rkey == IF TruthyValue(Get(body, "rkey")) THEN Get(body, "rkey") ELSE genKey
        uri == createAtUri(authContext.did, CheckinCollection, genKey)
        ins == createCheckinRecord(st, rkey, authContext.did, validatedRecord.v, uri, genCid)
    IN  IF ~validatedRecord.ok
        THEN Outcome(Response(400, "InvalidRequest", validatedRecord, NoData), st, FALSE)
        ELSE IF ~ins.ok
        THEN Outcome(Response(400, "InvalidRequest",
                              Fail("UNIQUE constraint failed: anchor_checkins_v3.id"), NoData),
                     ins.store, TRUE)
        ELSE Outcome(Response(200, "", Ok(Undefined), [uri |-> uri, cid |-> genCid]),
                     ins.store, TRUE)

\* Mutant: the record stored in the repository the body names.
CreateCheckedRepoOwner(authContext, body, st, genKey, genCid) ==
    LET validatedRecord == validateCheckinRecord(Get(body, "record"))
        rkey == IF TruthyValue(Get(body, "rkey")) THEN Get(body, "rkey") ELSE genKey
        did == IF Get(body, "repo") = Str(41, 11) THEN "did:plc:bob" ELSE authContext.did
        uri == createAtUri(did, CheckinCollection, rkey)
        ins == createCheckinRecord(st, rkey, did, validatedRecord.v, uri, genCid)
    IN  IF ~validatedRecord.ok
        THEN Outcome(Response(400, "InvalidRequest", validatedRecord, NoData), st, FALSE)
        ELSE IF ~ins.ok
        THEN Outcome(Response(400, "InvalidRequest",
                              Fail("UNIQUE constraint failed: anchor_checkins_v3.id"), NoData),
                     ins.store, TRUE)
        ELSE Outcome(Response(200, "", Ok(Undefined), [uri |-> uri, cid |-> genCid]),
                     ins.store, TRUE)

\* The handler after authentication and the parse of the body.
CreateChecked(authContext, body, st, genKey, genCid) ==
    LET validatedRecord == validateCheckinRecord(Get(body, "record"))
        rkey == IF TruthyValue(Get(body, "rkey")) THEN Get(body, "rkey") ELSE genKey
        uri == createAtUri(authContext.did, CheckinCollection, rkey)
        ins == createCheckinRecord(st, rkey, authContext.did, validatedRecord.v, uri, genCid)
    IN  IF ~validatedRecord.ok
        THEN Outcome(Response(400, "InvalidRequest", validatedRecord, NoData), st, FALSE)
        ELSE IF ~ins.ok
        THEN Outcome(Response(400, "InvalidRequest",
                              Fail("UNIQUE constraint failed: anchor_checkins_v3.id"), NoData),
                     ins.store, TRUE)
        ELSE Outcome(Response(200, "", Ok(Undefined), [uri |-> uri, cid |-> genCid]),
                     ins.store, TRUE)

WrongCollection(st) ==
    Outcome(Response(400, "InvalidRequest",
                     Fail("Only app.dropanchor.checkin records are supported"), NoData),
            st, FALSE)

\* Mutant: createRecord checking the collection before the identity.
CreateRecordRouteCollectionFirst(authContext, body, st, genKey, genCid) ==
    IF body # MalformedBody /\ Get(body, "collection") # CheckinCollection
    THEN WrongCollection(st)
    ELSE IF authContext = NoAuth THEN AuthenticationRequired(st)
    ELSE IF body = MalformedBody
    THEN Outcome(Response(400, "InvalidRequest", Fail("SyntaxError: not valid JSON"), NoData),
                 st, FALSE)
    ELSE CreateChecked(authContext, body, st, genKey, genCid)

\* Mutant: createRecord without the check of the collection.
CreateRecordRouteAnyCollection(authContext, body, st, genKey, genCid) ==
    IF authContext = NoAuth THEN AuthenticationRequired(st)
    ELSE IF body = MalformedBody
    THEN Outcome(Response(400, "InvalidRequest", Fail("SyntaxError: not valid JSON"), NoData),
                 st, FALSE)
    ELSE CreateChecked(authContext, body, st, genKey, genCid)

\* com.atproto.repo.createRecord, with the key generateRkey() and the cid
\* generateCid() would return.
CreateRecordRoute(authContext, body, st, genKey, genCid) ==
    IF authContext = NoAuth THEN AuthenticationRequired(st)
    ELSE IF body = MalformedBody
    THEN Outcome(Response(400, "InvalidRequest", Fail("SyntaxError: not valid JSON"), NoData),
                 st, FALSE)
    ELSE IF Get(body, "collection") # CheckinCollection
    THEN WrongCollection(st)
    ELSE CreateChecked(authContext, body, st, genKey, genCid)

\* Mutant: getRecord behind the authentication of the other routes; its
\* requests carry no identity.
GetRecordRouteProtected(uri, st) == {AuthenticationRequired(st)}

\* com.atproto.sync.getRecord: no authentication.
GetRecordRoute(uri, st) ==
    IF uri = << >>
    THEN {Outcome(Response(400, "InvalidRequest", Fail("uri parameter required"), NoData),
                  st, FALSE)}
    ELSE {IF record = Null
          THEN Outcome(Response(404, "RecordNotFound", Fail("Record not found"), NoData), st, TRUE)
          ELSE Outcome(Response(200, "", Ok(Undefined),
                                [uri |-> record.uri, cid |-> record.cid,
                                 value |-> [text |-> record.text,
                                            createdAt |-> record.createdAt,
                                            locations |-> record.locations,
                                            category |-> record.category,
                                            categoryGroup |-> record.categoryGroup,
                                            categoryIcon |-> record.categoryIcon]]),
                       st, TRUE)
          : record \in getCheckinByUri(st, uri)}

\* The limit query parameter: absent, or the decimal string of an integer.
NoLimit == [k |-> "absent", v |-> 0]
LimitParam(n) == [k |-> "int", v |-> n]
\* Math.min(parseInt(c.req.query("limit") || "50"), 100)
RouteLimit(q) == Min(IF q.k = "int" THEN q.v ELSE DEFAULT_LIMIT, GLOBAL_FEED_MAX)

\* The FeedResponse of a page.
FeedView(checkin) ==
    [uri |-> checkin.uri, cid |-> checkin.cid,
     value |-> [text |-> checkin.text, createdAt |-> checkin.createdAt,
                locations |-> checkin.locations, category |-> checkin.category,
                categoryGroup |-> checkin.categoryGroup,
                categoryIcon |-> checkin.categoryIcon],
     author |-> [did |-> checkin.authorDid]]
FeedResponse(checkins) ==
    Response(200, "", Ok(Undefined),
             [checkins |-> [i \in 1..Len(checkins) |-> FeedView(checkins[i])],
              cursor |-> IF Len(checkins) > 0 THEN checkins[Len(checkins)].createdAt
                         ELSE Undefined])

\* Mutant: listCheckins without the check of the requested owner.
ListCheckinsRouteAnyUser(authContext, user, limitQ, cursor, st) ==
    IF authContext = NoAuth THEN {AuthenticationRequired(st)}
    ELSE LET userDid == IF user # "" THEN user ELSE authContext.did
         IN  {Outcome(FeedResponse(checkins), st, TRUE)
              : checkins \in getCheckinsByAuthor(st, userDid, RouteLimit(limitQ), cursor)}

\* app.dropanchor.listCheckins
ListCheckinsRoute(authContext, user, limitQ, cursor, st) ==
    IF authContext = NoAuth THEN {AuthenticationRequired(st)}
    ELSE LET userDid == IF user # "" THEN user ELSE authContext.did
             limit == RouteLimit(limitQ)
         IN  IF userDid # authContext.did
             THEN {Outcome(Response(403, "Forbidden",
                                    Fail("Can only access your own check-ins"), NoData),
                           st, FALSE)}
             ELSE {Outcome(FeedResponse(checkins), st, TRUE)
                   : checkins \in getCheckinsByAuthor(st, userDid, limit, cursor)}

\* app.dropanchor.getGlobalFeed
GetGlobalFeedRoute(authContext, limitQ, cursor, st) ==
    IF authContext = NoAuth THEN {AuthenticationRequired(st)}
    ELSE {Outcome(FeedResponse(checkins), st, TRUE)
          : checkins \in getGlobalFeed(st, RouteLimit(limitQ), cursor)}

(***************************************************************************)
(* Requests.  A request runs from its arrival to its first suspension, is  *)
(* resumed by each getSession answer, and runs its statement on the store  *)
(* in one step (each store operation is one statement).                    *)
(***************************************************************************)
NoResponse == [status |-> 0, error |-> "", message |-> Ok(Undefined), data |-> NoData]
NoInput == [body |-> MalformedBody, user |-> "", limit |-> NoLimit, cursor |-> Undefined,
            uri |-> << >>]
\* hit, fetched, answer, at, end and touched are history: whether validateToken
\* answered from the cache, the getSession calls it made and how the last one
\* came back, when the request arrived and when it was answered, and whether
\* the handler ran a statement on the store.
Idle == [pc |-> "idle", ep |-> "", header |-> NoHeader, in |-> NoInput, auth |-> NoAuth,
         host |-> 0, hit |-> FALSE, fetched |-> 0, answer |-> "", at |-> 0, end |-> 0,
         resp |-> NoResponse, touched |-> FALSE]

\* The inputs the requests are drawn from.
Headers == {NoHeader, BasicHeader} \cup {Bearer(t) : t \in Tokens}
ClientKey == Str(101, 3)
OtherCollection == Str(21, 18)      \* "app.bsky.feed.post"
Coffee == Str(1, 6)
ValidPlain == Obj(("text" :> Coffee) @@ ("createdAt" :> Timestamp(1)))
ValidFull ==
    Obj(("text" :> Coffee) @@ ("createdAt" :> Timestamp(2))
        @@ ("locations" :> Arr(<<Obj(("$type" :> GeoType) @@ ("latitude" :> CoordStr(40))
                                     @@ ("longitude" :> CoordStr(-74)))>>))
        @@ ("category" :> Str(30, 4)) @@ ("categoryIcon" :> Str(31, 1)))
MissingText == Obj("createdAt" :> Timestamp(1))
BadLocationAndCategory ==
    Obj(("text" :> Coffee) @@ ("createdAt" :> Timestamp(1))
        @@ ("locations" :> Arr(<<Obj("$type" :> UnknownType)>>))
        @@ ("category" :> EmptyStr))
RequestRecords == {ValidPlain, ValidFull, MissingText, BadLocationAndCategory}
Bodies ==
    {MalformedBody, Body(OtherCollection, ValidPlain, Undefined)}
        \cup {Body(CheckinCollection, rec, k) : rec \in RequestRecords, k \in {Undefined, ClientKey}}
LimitParams == {NoLimit, LimitParam(-1), LimitParam(1)}
Cursors == {Undefined, Timestamp(2)}
Users == {""} \cup DIDs
CIDs == {Str(301, 16), Str(302, 16)}
UriParams == {<< >>} \cup {createAtUri(d, CheckinCollection, ClientKey) : d \in DIDs}

Inputs(ep) ==
    CASE ep = "createRecord" -> {[NoInput EXCEPT !.body = b] : b \in Bodies}
      [] ep = "getRecord" -> {[NoInput EXCEPT !.uri = u] : u \in UriParams}
      [] ep = "listCheckins" ->
            {[NoInput EXCEPT !.user = u, !.limit = l, !.cursor = c]
                : u \in Users, l \in LimitParams, c \in Cursors}
      [] ep = "getGlobalFeed" ->
            {[NoInput EXCEPT !.limit = l, !.cursor = c] : l \in LimitParams, c \in Cursors}

\* generateRkey(): a UUID no stored row has.
generateRkey(st) == Str(201 + Cardinality({r \in st : r.id.c > 200}), 36)

\* What the handler of req does with the identity authContext on store st.
RouteOutcomes(req, authContext, st) ==
    CASE req.ep = "createRecord" ->
            {CreateRecordRoute(authContext, req.in.body, st, generateRkey(st), cid) : cid \in CIDs}
      [] req.ep = "getRecord" -> GetRecordRoute(req.in.uri, st)
      [] req.ep = "listCheckins" ->
            ListCheckinsRoute(authContext, req.in.user, req.in.limit, req.in.cursor, st)
      [] req.ep = "getGlobalFeed" ->
            GetGlobalFeedRoute(authContext, req.in.limit, req.in.cursor, st)

\* The handler of req returns out (the store grows to MaxRows rows at most).
Respond(r, req, out) ==
    /\ out.store = store \/ Cardinality(out.store) <= MaxRows
    /\ reqs' = [reqs EXCEPT ![r] = [req EXCEPT !.pc = "done", !.resp = out.resp,
                                                !.touched = out.touched, !.end = now]]
    /\ store' = out.store
    /\ created' =
          IF req.ep = "createRecord" /\ out.resp.status = 200
          THEN created \cup {[uri |-> out.resp.data.uri, cid |-> out.resp.data.cid,
                              did |-> req.auth.did,
                              record |-> validateCheckinRecord(Get(req.in.body, "record")).v]}
          ELSE created

\* Mutant: a session is cached but the loop over the hosts goes on.
AfterAnswerGoesOn(cache, token, answer, t) ==
    IF answer.kind = "ok"
    THEN [cache |-> CacheSet(cache, token, answer, t), auth |-> NoAuth, raised |-> FALSE]
    ELSE [cache |-> cache, auth |-> NoAuth, raised |-> FALSE]

\* Mutant: the fetch outside the try, its rejection leaves validateToken.
AfterAnswerNoCatch(cache, token, answer, t) ==
    IF answer.kind = "ok"
    THEN [cache |-> CacheSet(cache, token, answer, t),
          auth |-> AuthContext(answer.did, answer.handle), raised |-> FALSE]
    ELSE [cache |-> cache, auth |-> NoAuth, raised |-> answer.kind = "throws"]

\* Mutant: every answer is cached, the refusals too.
AfterAnswerCacheAll(cache, token, answer, t) ==
    [cache |-> CacheSet(cache, token, answer, t),
     auth |-> IF answer.kind = "ok" THEN AuthContext(answer.did, answer.handle) ELSE NoAuth,
     raised |-> FALSE]

\* validateToken after a getSession answer: the cache, and the identity it
\* returns, or none when it goes on (to the next host or to return null).  A
\* rejection of the fetch is caught inside the loop (catch: continue), so
\* nothing is raised to the caller.
AfterAnswer(cache, token, answer, t) ==
    IF answer.kind = "ok"
    THEN [cache |-> CacheSet(cache, token, answer, t),
          auth |-> AuthContext(answer.did, answer.handle), raised |-> FALSE]
    ELSE [cache |-> cache, auth |-> NoAuth, raised |-> FALSE]

\* A request arrives, one of the endpoints eps with one of the headers and
\* one of the inputs[ep]; its handler runs to its first suspension.
ArriveOf(r, eps, headers, inputs) ==
    /\ reqs[r].pc = "idle"
    /\ \E ep \in eps, header \in headers :
         \E in \in inputs[ep] :
            LET req == [Idle EXCEPT !.ep = ep, !.header = header, !.in = in, !.at = now]
            IN  IF ep = "getRecord"
                THEN /\ header = NoHeader
                     /\ reqs' = [reqs EXCEPT ![r] = [req EXCEPT !.pc = "exec"]]
                     /\ UNCHANGED <<store, created>>
                ELSE IF ~HasBearer(header)
                THEN \E out \in RouteOutcomes(req, NoAuth, store) : Respond(r, req, out)
                ELSE IF CacheHit(didCache, header.token, now)
                THEN /\ reqs' = [reqs EXCEPT ![r] =
                            [req EXCEPT !.pc = "exec", !.hit = TRUE,
                                        !.auth = AuthContext(didCache[header.token].did,
                                                             didCache[header.token].handle)]]
                     /\ UNCHANGED <<store, created>>
                ELSE /\ reqs' = [reqs EXCEPT ![r] = [req EXCEPT !.pc = "host", !.host = 1]]
                     /\ UNCHANGED <<store, created>>
    /\ UNCHANGED <<didCache, now, feed, walk, settings, val>>

Arrive(r) == ArriveOf(r, Endpoints, Headers, [ep \in Endpoints |-> Inputs(ep)])

\* The host a request waits for answers its getSession call.  An error
\* raised by validateToken would pass authenticateRequest and the handler,
\* neither of which has a try around the call, and leave the application.
HostAnswer(r) ==
    /\ reqs[r].pc = "host"
    /\ LET token == reqs[r].header.token
       IN  \E answer \in HostAnswers(commonPDSHosts[reqs[r].host], token, now) :
             LET req == [reqs[r] EXCEPT !.fetched = @ + 1, !.answer = answer.kind]
                 after == AfterAnswer(didCache, token, answer, now)
             IN  /\ didCache' = after.cache
                 /\ IF after.raised
                    THEN Respond(r, req, Outcome(Response(500, "", Fail("fetch failed"), NoData),
                                                 store, FALSE))
                    ELSE IF after.auth # NoAuth
                    THEN /\ reqs' = [reqs EXCEPT ![r] =
                                [req EXCEPT !.pc = "exec", !.auth = after.auth]]
                         /\ UNCHANGED <<store, created>>
                    ELSE IF req.host < Len(commonPDSHosts)
                    THEN /\ reqs' = [reqs EXCEPT ![r] = [req EXCEPT !.host = @ + 1]]
                         /\ UNCHANGED <<store, created>>
                    ELSE \E out \in RouteOutcomes(req, NoAuth, store) : Respond(r, req, out)
    /\ UNCHANGED <<now, feed, walk, settings, val>>

\* An authenticated (or public) request runs the rest of its handler.
Exec(r) ==
    /\ reqs[r].pc = "exec"
    /\ \E out \in RouteOutcomes(reqs[r], reqs[r].auth, store) : Respond(r, reqs[r], out)
    /\ UNCHANGED <<didCache, now, feed, walk, settings, val>>

\* The response is delivered.
Finish(r) ==
    /\ reqs[r].pc = "done"
    /\ reqs' = [reqs EXCEPT ![r] = Idle]
    /\ UNCHANGED <<store, didCache, now, created, feed, walk, settings, val>>

\* Time passes: half a time-to-live.
Tick ==
    /\ now < MaxTicks * (CACHE_TTL \div 2)
    /\ now' = now + CACHE_TTL \div 2
    /\ UNCHANGED <<store, didCache, reqs, created, feed, walk, settings, val>>

NoFeed == [op |-> "none"]
NoWalk == [pc |-> "none"]
\* anchor_user_settings_v1 without a row, and no call of the validator made.
NoSettings == [did \in DIDs |-> [k |-> "none"]]
NoVal == [pc |-> "none"]

InitOf(slots) ==
    /\ store = {}
    /\ didCache = [t \in Tokens |-> NoEntry]
    /\ now = 0
    /\ reqs = [r \in slots |-> Idle]
    /\ created = {}
    /\ feed = NoFeed
    /\ walk = NoWalk
    /\ settings = NoSettings
    /\ val = NoVal

(***************************************************************************)
(* Spec: the four endpoints, one request at a time, within one             *)
(* time-to-live.                                                           *)
(***************************************************************************)
Init == InitOf({"r1"})

Next ==
    \/ \E r \in DOMAIN reqs : Arrive(r)
    \/ \E r \in DOMAIN reqs : HostAnswer(r)
    \/ \E r \in DOMAIN reqs : Exec(r)
    \/ \E r \in DOMAIN reqs : Finish(r)

Spec == Init /\ [][Next]_vars

(***************************************************************************)
(* SpecAuth: concurrent requests that only authenticate (the global feed   *)
(* of the empty store), while time passes.                                 *)
(***************************************************************************)
AuthInputs(ep) == {NoInput}
ArriveAuth(r) == ArriveOf(r, {"getGlobalFeed"}, Headers, [ep \in Endpoints |-> AuthInputs(ep)])

InitAuth == InitOf({"r1", "r2"})

NextAuth ==
    \/ \E r \in DOMAIN reqs : ArriveAuth(r)
    \/ \E r \in DOMAIN reqs : HostAnswer(r)
    \/ \E r \in DOMAIN reqs : Exec(r)
    \/ \E r \in DOMAIN reqs : Finish(r)
    \/ Tick

SpecAuth == InitAuth /\ [][NextAuth]_vars

(***************************************************************************)
(* SpecConc: concurrent createRecord requests of two accounts.             *)
(***************************************************************************)
\* The last body names bob's repository: { repo: "did:plc:bob", ... }.
ConcInputs(ep) ==
    {[NoInput EXCEPT !.body = b]
        : b \in {Body(CheckinCollection, ValidPlain, ClientKey),
                 Body(CheckinCollection, ValidFull, ClientKey),
                 Obj(Body(CheckinCollection, ValidPlain, Undefined).o
                     @@ ("repo" :> Str(41, 11)))}}
\* Slot r1 carries alice's requests, slot r2 bob's.
ArriveConc(r) == ArriveOf(r, {"createRecord"}, {Bearer(IF r = "r1" THEN "tokA" ELSE "tokB")},
                          [ep \in Endpoints |-> ConcInputs(ep)])

InitConc == InitOf({"r1", "r2"})

NextConc ==
    \/ \E r \in DOMAIN reqs : ArriveConc(r)
    \/ \E r \in DOMAIN reqs : HostAnswer(r)
    \/ \E r \in DOMAIN reqs : Exec(r)
    \/ \E r \in DOMAIN reqs : Finish(r)

SpecConc == InitConc /\ [][NextConc]_vars

(***************************************************************************)
(* SpecFeed: one direct call of a feed query on a store of up to MaxBulk   *)
(* rows.                                                                   *)
(***************************************************************************)
BulkRow(i) ==
    LET did == IF i % 2 = 0 THEN "did:plc:alice" ELSE "did:plc:bob"
        rkey == Str(1000 + i, 36)
    IN  NewRow(rkey, did,
               validateCheckinRecord(Obj(("text" :> Coffee) @@ ("createdAt" :> Timestamp(i)))).v,
               createAtUri(did, CheckinCollection, rkey), Str(301, 16))
BulkStore(n) == {BulkRow(i) : i \in 1..n}
\* Four check-ins, two createdAt values, each shared by both authors.
TiedStore ==
    {NewRow(Str(1000 + i, 36), did,
            validateCheckinRecord(Obj(("text" :> Coffee) @@ ("createdAt" :> Timestamp(i)))).v,
            createAtUri(did, CheckinCollection, Str(1000 + i, 36)), Str(301, 16))
        : i \in 1..2, did \in DIDs}
BulkSizes == {0, 1, GLOBAL_FEED_MAX - 1, GLOBAL_FEED_MAX, GLOBAL_FEED_MAX + 1, MaxBulk}
FeedLimits == {-100, -1, 0, 1, DEFAULT_LIMIT, GLOBAL_FEED_MAX, GLOBAL_FEED_MAX + 1, 150}
FeedCursors == {Undefined, EmptyStr, Timestamp(2), Timestamp(GLOBAL_FEED_MAX + 2)}

InitFeed ==
    /\ store \in {BulkStore(n) : n \in BulkSizes} \cup {TiedStore}
    /\ didCache = [t \in Tokens |-> NoEntry]
    /\ now = 0
    /\ reqs = [r \in {"r1"} |-> Idle]
    /\ created = {}
    /\ feed = NoFeed
    /\ walk = NoWalk
    /\ settings = NoSettings
    /\ val = NoVal

CallGlobalFeed ==
    /\ feed = NoFeed
    /\ \E limit \in FeedLimits, cursor \in FeedCursors :
         \E page \in getGlobalFeed(store, limit, cursor) :
            feed' = [op |-> "getGlobalFeed", authorDid |-> "", limit |-> limit,
                     cursor |-> cursor, page |-> page]
    /\ UNCHANGED <<store, didCache, now, reqs, created, walk, settings, val>>

CallByAuthor ==
    /\ feed = NoFeed
    /\ \E did \in DIDs, limit \in FeedLimits, cursor \in FeedCursors :
         \E page \in getCheckinsByAuthor(store, did, limit, cursor) :
            feed' = [op |-> "getCheckinsByAuthor", authorDid |-> did, limit |-> limit,
                     cursor |-> cursor, page |-> page]
    /\ UNCHANGED <<store, didCache, now, reqs, created, walk, settings, val>>

NextFeed == CallGlobalFeed \/ CallByAuthor

SpecFeed == InitFeed /\ [][NextFeed]_vars

(***************************************************************************)
(* SpecWalk: a client pages through one owner's check-ins on a store that  *)
(* does not change, in which no two rows of the owner share a createdAt.   *)
(* The client passes the createdAt of the last row of a page as the next   *)
(* cursor (the cursor of the FeedResponse) and stops at a page shorter     *)
(* than limit.                                                             *)
(***************************************************************************)
WalkKeys == 1..MaxWalkRows
WalkRow(i, did, ts) ==
    NewRow(Str(100 + i, 3), did,
           validateCheckinRecord(Obj(("text" :> Coffee) @@ ("createdAt" :> Timestamp(ts)))).v,
           createAtUri(did, CheckinCollection, Str(100 + i, 3)), Str(301, 16))
WalkStores ==
    LET Absent == <<"", 0>>
        Choices == {Absent} \cup (DIDs \X WalkKeys)
    IN  {{WalkRow(i, f[i][1], f[i][2]) : i \in {j \in WalkKeys : f[j] # Absent}}
            : f \in [WalkKeys -> Choices]}
NoTies(st, owner) ==
    \A r1, r2 \in st :
        r1.authorDid = owner /\ r2.authorDid = owner /\ r1 # r2 => r1.createdAt # r2.createdAt
WalkLimits == {1, 2}

InitWalk ==
    /\ store \in WalkStores
    /\ didCache = [t \in Tokens |-> NoEntry]
    /\ now = 0
    /\ reqs = [r \in {"r1"} |-> Idle]
    /\ created = {}
    /\ feed = NoFeed
    /\ \E owner \in DIDs, limit \in WalkLimits :
         /\ NoTies(store, owner)
         /\ walk = [pc |-> "walking", op |-> "getCheckinsByAuthor", owner |-> owner,
                    limit |-> limit, cursor |-> Undefined, seen |-> << >>, calls |-> 0]
    /\ settings = NoSettings
    /\ val = NoVal

\* One call of the walk.
WalkStep ==
    /\ walk.pc = "walking"
    /\ walk.op = "getCheckinsByAuthor"
    /\ walk.calls < MaxWalkRows + 2
    /\ \E page \in getCheckinsByAuthor(store, walk.owner, walk.limit, walk.cursor) :
         walk' = [walk EXCEPT
                    !.seen = @ \o [i \in 1..Len(page) |-> page[i].uri],
                    !.calls = @ + 1,
                    !.pc = IF Len(page) < walk.limit THEN "done" ELSE "walking",
                    !.cursor = IF Len(page) > 0 THEN page[Len(page)].createdAt ELSE @]
    /\ UNCHANGED <<store, didCache, now, reqs, created, feed, settings, val>>

NextWalk == WalkStep

SpecWalk == InitWalk /\ [][NextWalk]_vars /\ WF_vars(WalkStep)

(***************************************************************************)
(* SpecLive: a client pages through one owner's check-ins or through the   *)
(* global feed while check-ins are created between its calls; check-ins    *)
(* may share a createdAt.                                                  *)
(***************************************************************************)
InitLive ==
    /\ store \in {{WalkRow(i, f[i][1], f[i][2]) : i \in {j \in 1..MaxRows : f[j][2] # 0}}
                    : f \in [1..MaxRows -> {<<"", 0>>} \cup (DIDs \X (1..2))]}
    /\ didCache = [t \in Tokens |-> NoEntry]
    /\ now = 0
    /\ reqs = [r \in {"r1"} |-> Idle]
    /\ created = {}
    /\ feed = NoFeed
    /\ \E op \in {"getCheckinsByAuthor", "getGlobalFeed"}, owner \in DIDs, limit \in WalkLimits :
         /\ op = "getGlobalFeed" => owner = "did:plc:alice"
         /\ walk = [pc |-> "walking", op |-> op, owner |-> owner, limit |-> limit,
                    cursor |-> Undefined, seen |-> << >>, calls |-> 0]
    /\ settings = NoSettings
    /\ val = NoVal

\* One call of the walk through the global feed.
WalkStepGlobal ==
    /\ walk.pc = "walking"
    /\ walk.op = "getGlobalFeed"
    /\ walk.calls < MaxWalkRows + 2
    /\ \E page \in getGlobalFeed(store, walk.limit, walk.cursor) :
         walk' = [walk EXCEPT
                    !.seen = @ \o [i \in 1..Len(page) |-> page[i].uri],
                    !.calls = @ + 1,
                    !.pc = IF Len(page) < walk.limit THEN "done" ELSE "walking",
                    !.cursor = IF Len(page) > 0 THEN page[Len(page)].createdAt ELSE @]
    /\ UNCHANGED <<store, didCache, now, reqs, created, feed, settings, val>>

\* A check-in is created between two calls of the walk.
WalkInsert ==
    /\ walk.pc = "walking"
    /\ \E i \in 1..(MaxRows + 1), did \in DIDs, ts \in 1..3 :
         LET row == WalkRow(i, did, ts)
             ins == createCheckinRecord(store, row.id,  did,
                        validateCheckinRecord(Obj(("text" :> Coffee)
                                                  @@ ("createdAt" :> Timestamp(ts)))).v,
                        row.uri, row.cid)
         IN  /\ ins.ok
             /\ store' = ins.store
    /\ UNCHANGED <<didCache, now, reqs, created, feed, walk, settings, val>>

NextLive == WalkStep \/ WalkStepGlobal \/ WalkInsert

SpecLive == InitLive /\ [][NextLive]_vars

(***************************************************************************)
(* SpecStore: requests to the four endpoints next to direct reads and      *)
(* updates of the user settings.                                           *)
(***************************************************************************)
\* SELECT enableFeedPosts ... WHERE did = ?; the default when there is no row.
getUserSettings(tbl, did) ==
    IF tbl[did].k = "none" THEN [enableFeedPosts |-> TRUE]
    ELSE [enableFeedPosts |-> tbl[did].enableFeedPosts]

\* INSERT OR REPLACE INTO anchor_user_settings_v1 (did, enableFeedPosts)
updateUserSettings(tbl, did, s) ==
    [tbl EXCEPT ![did] = [k |-> "row", enableFeedPosts |-> s.enableFeedPosts]]

StoreInputs(ep) ==
    CASE ep = "createRecord" ->
            {[NoInput EXCEPT !.body = b]
                : b \in {Body(CheckinCollection, ValidPlain, ClientKey),
                         Body(CheckinCollection, ValidFull, Undefined),
                         Body(CheckinCollection, MissingText, Undefined)}}
      [] ep = "getRecord" -> {[NoInput EXCEPT !.uri = u] : u \in UriParams}
      [] ep = "listCheckins" -> {[NoInput EXCEPT !.limit = l] : l \in {NoLimit, LimitParam(-1)}}
      [] ep = "getGlobalFeed" -> {[NoInput EXCEPT !.cursor = c] : c \in Cursors}
\* The requests are anonymous or alice's.
ArriveStore(r) ==
    ArriveOf(r, Endpoints, {NoHeader, Bearer("tokA")}, [ep \in Endpoints |-> StoreInputs(ep)])

ReadSettings ==
    /\ \E did \in DIDs :
         feed' = [op |-> "getUserSettings", did |-> did,
                  result |-> getUserSettings(settings, did)]
    /\ UNCHANGED <<store, didCache, now, reqs, created, walk, settings, val>>

UpdateSettings ==
    /\ \E did \in DIDs, enable \in BOOLEAN :
         settings' = updateUserSettings(settings, did, [enableFeedPosts |-> enable])
    /\ UNCHANGED <<store, didCache, now, reqs, created, feed, walk, val>>

InitStore == InitOf({"r1"})

NextStore ==
    \/ \E r \in DOMAIN reqs : ArriveStore(r)
    \/ \E r \in DOMAIN reqs : HostAnswer(r)
    \/ \E r \in DOMAIN reqs : Exec(r)
    \/ \E r \in DOMAIN reqs : Finish(r)
    \/ ReadSettings
    \/ UpdateSettings

SpecStore == InitStore /\ [][NextStore]_vars

(***************************************************************************)
(* SpecValidate: validateCheckinRecord called on an input, and called      *)
(* again on what it returned.                                              *)
(***************************************************************************)
\* {name: v}, or {} when v is undefined.
Field(name, v) == IF v # Undefined THEN name :> v ELSE << >>

Geo(latitude, longitude) ==
    Obj(("$type" :> GeoType) @@ Field("latitude", latitude) @@ Field("longitude", longitude))

\* Location elements: two geo locations in range (one with a field the lexicon
\* does not validate), one out of range, an address, an unknown type tag and
\* an element without a type tag.
ValElements ==
    {Geo(CoordStr(40), CoordStr(-74)),
     Obj(("$type" :> GeoType) @@ ("latitude" :> CoordStr(90)) @@ ("longitude" :> CoordStr(-180))
         @@ ("name" :> Coffee)),
     Geo(CoordStr(91), CoordStr(0)),
     Obj(("$type" :> AddressType) @@ ("street" :> Coffee) @@ ("country" :> Str(2, 2))),
     Obj(("$type" :> UnknownType) @@ ("latitude" :> CoordStr(40))),
     Obj("name" :> Coffee)}

ValLocations ==
    {Undefined, Str(1, 6)}
        \cup {Arr(a) : a \in UNION {[1..n -> ValElements] : n \in 0..MaxLocations}}

ValTexts == {Undefined, Coffee, Str(3, MAX_TEXT), Str(4, MAX_TEXT + 1)}
ValCreatedAts == {Undefined, Timestamp(1), Str(5, 9)}

CheckinInput(text, createdAt, locations, category, categoryGroup, categoryIcon) ==
    Obj(Field("text", text) @@ Field("createdAt", createdAt) @@ Field("locations", locations)
        @@ Field("category", category) @@ Field("categoryGroup", categoryGroup)
        @@ Field("categoryIcon", categoryIcon))

ValCategories ==
    {Undefined, Null, EmptyStr, Str(30, 4), Str(32, MAX_CATEGORY), Str(33, MAX_CATEGORY + 1)}
ValCategoryGroups == {Undefined, Str(36, 12), Str(37, MAX_CATEGORY + 1)}
ValCategoryIcons ==
    {Undefined, EmptyStr, Str(31, 1), Str(34, MAX_CATEGORY_ICON), Str(35, MAX_CATEGORY_ICON + 1)}

ValCoordinates ==
    {Undefined, EmptyStr, Str(6, 3), Num(45)}
        \cup {CoordStr(d) : d \in {-181, -180, -91, -90, 0, 90, 91, 180, 181}}

\* The inputs: what is not an object; every text, createdAt and locations with
\* no, a valid and an empty category; every combination of category fields;
\* every pair of coordinates.
ValidatorInputs ==
    {Null, Undefined, Str(1, 6), Num(7), Arr(<< >>)}
        \cup {CheckinInput(t, c, l, cat, Undefined, Undefined)
                : t \in ValTexts, c \in ValCreatedAts, l \in ValLocations,
                  cat \in {Undefined, Str(30, 4), EmptyStr}}
        \cup {CheckinInput(Coffee, Timestamp(1), l, cat, grp, icon)
                : l \in {Undefined, Arr(<< >>)}, cat \in ValCategories,
                  grp \in ValCategoryGroups, icon \in ValCategoryIcons}
        \cup {CheckinInput(Coffee, Timestamp(1), Arr(<<Geo(lat, lng)>>), Undefined, Undefined,
                           Undefined)
                : lat \in ValCoordinates, lng \in ValCoordinates}

InitValidate ==
    /\ store = {}
    /\ didCache = [t \in Tokens |-> NoEntry]
    /\ now = 0
    /\ reqs = [r \in {"r1"} |-> Idle]
    /\ created = {}
    /\ feed = NoFeed
    /\ walk = NoWalk
    /\ settings = NoSettings
    /\ \E x \in ValidatorInputs :
         val = [pc |-> "call", x |-> x, out |-> Ok(Undefined), again |-> Ok(Undefined)]

\* validateCheckinRecord(x) returns or throws.
Validate ==
    /\ val.pc = "call"
    /\ val' = [val EXCEPT !.pc = "returned", !.out = validateCheckinRecord(val.x)]
    /\ UNCHANGED <<store, didCache, now, reqs, created, feed, walk, settings>>

\* The record it returned is validated again.
Revalidate ==
    /\ val.pc = "returned"
    /\ val.out.ok
    /\ val' = [val EXCEPT !.pc = "again", !.again = validateCheckinRecord(val.out.v)]
    /\ UNCHANGED <<store, didCache, now, reqs, created, feed, walk, settings>>

NextValidate == Validate \/ Revalidate

SpecValidate == InitValidate /\ [][NextValidate]_vars

(***************************************************************************)
(* SpecCorrupt: one direct call of one of the three reads on a store in    *)
(* which locations cells may hold text that is not JSON (corrupted at      *)
(* rest).                                                                  *)
(***************************************************************************)
\* The stores: a check-in with a category and an icon per key, of either
\* account, its locations cell NULL, the JSON of its locations, or garbage.
CorruptStores ==
    LET record(i) == validateCheckinRecord([ValidFull EXCEPT !.o["createdAt"] = Timestamp(i)]).v
        row(i, did) == NewRow(Str(100 + i, 3), did, record(i),
                              createAtUri(did, CheckinCollection, Str(100 + i, 3)), Str(301, 16))
        cell(i, did, kind) == CASE kind = "null" -> Null
                                [] kind = "json" -> row(i, did).locations
                                [] kind = "garbage" -> Str(7, 5)
    IN  {{[row(i, f[i][1]) EXCEPT !.locations = cell(i, f[i][1], f[i][2])] : i \in 1..MaxRows}
            : f \in [1..MaxRows -> DIDs \X {"null", "json", "garbage"}]}

InitCorrupt ==
    /\ store \in CorruptStores
    /\ didCache = [t \in Tokens |-> NoEntry]
    /\ now = 0
    /\ reqs = [r \in {"r1"} |-> Idle]
    /\ created = {}
    /\ feed = NoFeed
    /\ walk = NoWalk
    /\ settings = NoSettings
    /\ val = NoVal

CallByUri ==
    /\ feed = NoFeed
    /\ \E uri \in {createAtUri(did, CheckinCollection, Str(100 + i, 3))
                     : did \in DIDs, i \in 0..MaxRows} :
         \E record \in getCheckinByUri(store, uri) :
            feed' = [op |-> "getCheckinByUri", uri |-> uri, record |-> record]
    /\ UNCHANGED <<store, didCache, now, reqs, created, walk, settings, val>>

NextCorrupt == CallGlobalFeed \/ CallByAuthor \/ CallByUri

SpecCorrupt == InitCorrupt /\ [][NextCorrupt]_vars

(***************************************************************************)
(* SpecFail: requests to the four endpoints on a store whose statements    *)
(* can fail (sqlite.execute rejects).                                      *)
(***************************************************************************)
\* The Error sqlite.execute rejects with.
StoreError == Fail("SQLITE_ERROR: disk I/O error")

\* What req's handler does when the statement it runs on the store rejects:
\* createRecord catches and maps the error; the other three handlers have no
\* try around the query, the error leaves the handler and app.onError throws
\* it again, so no response of the server's is produced (status 500 of the
\* runtime, no error kind).
StoreErrorOutcome(req, st) ==
    IF req.ep = "createRecord"
    THEN Outcome(Response(400, "InvalidRequest", StoreError, NoData), st, TRUE)
    ELSE Outcome(Response(500, "", StoreError, NoData), st, TRUE)

\* A request that reaches its statement on the store, and the statement fails.
ExecFails(r) ==
    /\ reqs[r].pc = "exec"
    /\ \E out \in RouteOutcomes(reqs[r], reqs[r].auth, store) : out.touched
    /\ Respond(r, reqs[r], StoreErrorOutcome(reqs[r], store))
    /\ UNCHANGED <<didCache, now, feed, walk, settings, val>>

InitFail == InitOf({"r1"})

NextFail ==
    \/ \E r \in DOMAIN reqs : ArriveStore(r)
    \/ \E r \in DOMAIN reqs : HostAnswer(r)
    \/ \E r \in DOMAIN reqs : Exec(r)
    \/ \E r \in DOMAIN reqs : ExecFails(r)
    \/ \E r \in DOMAIN reqs : Finish(r)

SpecFail == InitFail /\ [][NextFail]_vars

(***************************************************************************)
(* SpecList: listCheckins requests of an account with none, with           *)
(* DEFAULT_LIMIT + 1 and with GLOBAL_FEED_MAX + 1 check-ins stored.        *)
(***************************************************************************)
ArriveList(r) ==
    ArriveOf(r, {"listCheckins"}, {NoHeader} \cup {Bearer(t) : t \in Tokens},
             [ep \in Endpoints |->
                {[NoInput EXCEPT !.limit = l, !.cursor = c]
                    : l \in {NoLimit} \cup {LimitParam(n) : n \in FeedLimits},
                      c \in {Undefined, Timestamp(4)}}])

InitList ==
    /\ store \in {{BulkRow(2 * i) : i \in 1..n}
                    : n \in {0, DEFAULT_LIMIT + 1, GLOBAL_FEED_MAX + 1}}
    /\ didCache = [t \in Tokens |-> NoEntry]
    /\ now = 0
    /\ reqs = [r \in {"r1"} |-> Idle]
    /\ created = {}
    /\ feed = NoFeed
    /\ walk = NoWalk
    /\ settings = NoSettings
    /\ val = NoVal

NextList ==
    \/ \E r \in DOMAIN reqs : ArriveList(r)
    \/ \E r \in DOMAIN reqs : HostAnswer(r)
    \/ \E r \in DOMAIN reqs : Exec(r)
    \/ \E r \in DOMAIN reqs : Finish(r)

SpecList == InitList /\ [][NextList]_vars

(***************************************************************************)
(* Claims.                                                                 *)
(***************************************************************************)

\* C1: getGlobalFeed never returns more than 100 records, for every limit
\* (above 100, between 0 and 100, zero or negative), every cursor and every
\* number of stored check-ins.  (SpecFeed; violated: a negative limit passes
\* Math.min(limit, 100) unchanged and SQLite's LIMIT -1 does not limit.)
C1_GlobalFeedAtMost100 ==
    feed.op = "getGlobalFeed" => Len(feed.page) <= GLOBAL_FEED_MAX


\* C2: no cross-user reads.  A finished listCheckins request authenticated as A
\* whose user parameter names another identity was answered 403 Forbidden with
\* no data and ran no statement on the store, and every check-in in a
\* listCheckins response has the authenticated identity as its author.  (Spec)
C2_NoCrossUserReads ==
    \A r \in DOMAIN reqs :
        LET q == reqs[r]
        IN  (q.pc = "done" /\ q.ep = "listCheckins" /\ q.auth # NoAuth) =>
               /\ (q.in.user # "" /\ q.in.user # q.auth.did) =>
                     /\ q.resp.status = 403
                     /\ q.resp.error = "Forbidden"
                     /\ q.resp.data = NoData
                     /\ ~q.touched
               /\ q.resp.status = 200 =>
                     \A i \in 1..Len(q.resp.data.checkins) :
                         q.resp.data.checkins[i].author.did = q.auth.did

\* A listCheckins request for another identity, whose check-ins are stored, was
\* answered Forbidden, next to stored check-ins of both identities.
C2_Witness ==
    \E r \in DOMAIN reqs :
        /\ reqs[r].pc = "done" /\ reqs[r].ep = "listCheckins"
        /\ reqs[r].auth # NoAuth
        /\ reqs[r].in.user \notin {"", reqs[r].auth.did}
        /\ reqs[r].resp.status = 403
        /\ \E row \in store : row.authorDid = reqs[r].in.user
        /\ \E row \in store : row.authorDid = reqs[r].auth.did

\* C7: authentication comes first.  A finished request to createRecord,
\* listCheckins or getGlobalFeed that had no Bearer header, or whose token
\* validateToken resolved to null, was answered 401 AuthenticationRequired
\* whatever its body or query, and ran no statement on the store; the step that
\* answers it leaves the store as it was.  (Spec)
C7_AuthenticationFirst ==
    [][\A r \in DOMAIN reqs :
          LET q == reqs'[r]
          IN  (reqs[r].pc # "done" /\ q.pc = "done" /\ q.ep \in Protected
                 /\ (~HasBearer(q.header) \/ q.auth = NoAuth)) =>
                 /\ q.resp.status = 401
                 /\ q.resp.error = "AuthenticationRequired"
                 /\ q.resp.data = NoData
                 /\ ~q.touched
                 /\ store' = store]_vars

\* A createRecord for the wrong collection, with a token both hosts refused, was
\* answered 401, and so was a listCheckins with a header that is not Bearer.
C7_Witness ==
    \E r \in DOMAIN reqs :
        /\ reqs[r].pc = "done" /\ reqs[r].ep = "createRecord"
        /\ HasBearer(reqs[r].header) /\ reqs[r].fetched = Len(commonPDSHosts)
        /\ reqs[r].auth = NoAuth
        /\ reqs[r].in.body = Body(OtherCollection, ValidPlain, Undefined)
        /\ reqs[r].resp.status = 401
        /\ store # {}

\* The bodies createRecord rejects.
C8_Rejected(body) ==
    \/ body = MalformedBody
    \/ /\ body # MalformedBody
       /\ \/ Get(body, "collection") # CheckinCollection
          \/ ~validateCheckinRecord(Get(body, "record")).ok

\* C8: a rejected create changes nothing.  The step that answers an authenticated
\* createRecord whose body is not JSON, names another collection or carries a
\* record the validator rejects answers 400 InvalidRequest and leaves the stored
\* check-ins as they were; for a validator rejection the message is that of the
\* first failing rule (missing text before anything else, the unsupported
\* location type before the empty category).  (Spec)
C8_RejectedCreateChangesNothing ==
    [][\A r \in DOMAIN reqs :
          LET q == reqs'[r]
              body == q.in.body
          IN  (reqs[r].pc # "done" /\ q.pc = "done" /\ q.ep = "createRecord"
                 /\ q.auth # NoAuth /\ C8_Rejected(body)) =>
                 /\ q.resp.status = 400
                 /\ q.resp.error = "InvalidRequest"
                 /\ store' = store
                 /\ created' = created
                 /\ (body # MalformedBody /\ Get(body, "collection") = CheckinCollection) =>
                       /\ Get(body, "record") = MissingText =>
                             q.resp.message.msg = "Record must have a text field"
                       /\ Get(body, "record") = BadLocationAndCategory =>
                             /\ q.resp.message.msg = "Unsupported location type"
                             /\ q.resp.message.tag = UnknownType]_vars

\* An authenticated create with two failing rules was answered 400 while
\* check-ins were stored.
C8_Witness ==
    \E r \in DOMAIN reqs :
        /\ reqs[r].pc = "done" /\ reqs[r].ep = "createRecord"
        /\ reqs[r].auth # NoAuth
        /\ reqs[r].in.body = Body(CheckinCollection, BadLocationAndCategory, ClientKey)
        /\ reqs[r].resp.status = 400
        /\ reqs[r].resp.message.msg = "Unsupported location type"
        /\ store # {}

\* The field name of the record a getRecord or feed response carries.
C9_Field(value, name) ==
    CASE name = "text" -> value.text
      [] name = "createdAt" -> value.createdAt
      [] name = "locations" -> value.locations
      [] name = "category" -> value.category
      [] name = "categoryGroup" -> value.categoryGroup
      [] name = "categoryIcon" -> value.categoryIcon

C9_Fields == {"text", "createdAt", "locations", "category", "categoryGroup", "categoryIcon"}

\* The response view carries the uri, the cid and the six fields of entry e.
C9_Same(view, e) ==
    /\ view.uri = e.uri
    /\ view.cid = e.cid
    /\ \A name \in C9_Fields : C9_Field(view.value, name) = Get(e.record, name)

\* What the three reads answer about entry e on store st.
C9_Reads(st, e) ==
    LET me == AuthContext(e.did, HandleAt(now))
    IN  /\ GetRecordRoute(e.uri, st) # {}
        /\ \A o \in GetRecordRoute(e.uri, st) :
               o.resp.status = 200 /\ C9_Same(o.resp.data, e)
        /\ \A o \in ListCheckinsRoute(me, "", NoLimit, Undefined, st) :
               /\ o.resp.status = 200
               /\ \E i \in 1..Len(o.resp.data.checkins) :
                      /\ C9_Same(o.resp.data.checkins[i], e)
                      /\ o.resp.data.checkins[i].author.did = e.did
        /\ \A o \in GetGlobalFeedRoute(me, NoLimit, Undefined, st) :
               /\ o.resp.status = 200
               /\ \E i \in 1..Len(o.resp.data.checkins) :
                      C9_Same(o.resp.data.checkins[i], e)

\* C9: read-your-write.  After every step that changes the store or adds a
\* successful createRecord {uri, cid}, for every createRecord that has succeeded
\* so far getRecord(uri) answers 200 with that uri and cid and with the text,
\* createdAt, locations, category, categoryGroup and categoryIcon of the
\* validated record, and the record is in the creator's listCheckins and in the
\* global feed; and every getRecord request answered for such a uri got exactly
\* that.  (Spec; the reads depend on the store only, so what holds after its
\* last change holds until the next.)
C9_ReadYourWrite ==
    [][/\ (store' # store \/ created' # created) =>
             \A e \in created' : C9_Reads(store', e)
       /\ \A r \in DOMAIN reqs, e \in created' :
             (reqs'[r].pc = "done" /\ reqs'[r].ep = "getRecord"
                /\ reqs'[r].in.uri = e.uri) =>
                   /\ reqs'[r].resp.status = 200
                   /\ C9_Same(reqs'[r].resp.data, e)]_vars

\* A check-in with a location and category fields was created, and one created
\* under the client's key was read back by a getRecord request.
C9_Witness ==
    /\ \E e \in created :
          /\ Get(e.record, "locations") # Undefined
          /\ Get(e.record, "category") # Undefined
    /\ \E e \in created, r \in DOMAIN reqs :
          /\ reqs[r].pc = "done" /\ reqs[r].ep = "getRecord"
          /\ reqs[r].in.uri = e.uri
          /\ reqs[r].resp.status = 200
          /\ reqs[r].resp.data.cid = e.cid


\* The owner's stored check-ins were each returned once, and nothing else was.
C3_AllOnce ==
    /\ \A row \in store :
          row.authorDid = walk.owner =>
             Cardinality({i \in 1..Len(walk.seen) : walk.seen[i] = row.uri}) = 1
    /\ \A i \in 1..Len(walk.seen) :
          \E row \in store : row.authorDid = walk.owner /\ row.uri = walk.seen[i]

\* C3: cursor pagination visits everything once and terminates.  On a store
\* that does not change and in which no two check-ins of the owner share a
\* createdAt, the walk (getCheckinsByAuthor without a cursor, then with the
\* createdAt of the last row of the previous page, until a page is shorter
\* than limit) ends, after at most one call per check-in and one more, having
\* returned every check-in of the owner exactly once.  (SpecWalk)
C3_WalkVisitsAllOnce ==
    <>(/\ walk.pc = "done"
       /\ C3_AllOnce
       /\ walk.calls <= Cardinality({row \in store : row.authorDid = walk.owner}) + 1)

\* A walk of several calls has ended over check-ins of both identities.
C3_Witness ==
    /\ walk.pc = "done"
    /\ walk.calls >= 3
    /\ Len(walk.seen) >= 2
    /\ \E row \in store : row.authorDid # walk.owner

\* The step is validateToken(token) being called by request r.
C4_Called(r) ==
    /\ reqs[r].pc = "idle"
    /\ reqs'[r].pc # "idle"
    /\ HasBearer(reqs'[r].header)

\* C4: an expired cache entry is never returned.  A validateToken call made
\* after the expiry of the token's entry does not answer from the cache but
\* goes to the first host; and a call that went to the hosts returns the
\* session a host answers at that moment, or null after the last host
\* refused.  (SpecAuth)
C4_ExpiredEntryNeverReturned ==
    [][\A r \in DOMAIN reqs :
          LET p == reqs[r]
              q == reqs'[r]
              token == q.header.token
          IN  /\ (C4_Called(r) /\ didCache[token] # NoEntry /\ now > didCache[token].expires) =>
                    /\ q.pc = "host" /\ q.host = 1
                    /\ ~q.hit
                    /\ q.auth = NoAuth
              /\ (p.pc = "host" /\ q.pc # "host") =>
                    /\ ~q.hit
                    /\ \/ /\ q.auth = NoAuth
                          /\ q.fetched = Len(commonPDSHosts)
                          /\ q.pc = "done"
                       \/ /\ q.auth = AuthContext(SessionDid(token), HandleAt(now))
                          /\ q.fetched \in 1..Len(commonPDSHosts)
                          /\ q.pc = "exec"]_vars

\* A request that arrived after the expiry of its token's entry has asked the
\* first host, which refused, and the expired entry is still in the cache.
C4_Witness ==
    \E r \in DOMAIN reqs :
        /\ reqs[r].pc = "host" /\ reqs[r].fetched = 1
        /\ reqs[r].at = now
        /\ didCache[reqs[r].header.token] # NoEntry
        /\ didCache[reqs[r].header.token].expires < now

\* C5: cache hit without network call.  A validateToken call made while the
\* token's entry has its expiry strictly in the future returns the did and
\* handle of the entry and the request never sends a getSession call; and the
\* expiry of an entry is the time it was cached plus one hour.  (SpecAuth)
C5_FreshEntryNoNetwork ==
    [][\A r \in DOMAIN reqs :
          LET p == reqs[r]
              q == reqs'[r]
              token == q.header.token
          IN  /\ (C4_Called(r) /\ didCache[token] # NoEntry /\ didCache[token].expires > now) =>
                    /\ q.hit
                    /\ q.pc = "exec"
                    /\ q.auth = AuthContext(didCache[token].did, didCache[token].handle)
                    /\ q.fetched = 0
              /\ (p.hit /\ q.pc # "idle") => (q.fetched = 0 /\ q.auth = p.auth)
              /\ \A t \in Tokens :
                    didCache'[t] # didCache[t] => didCache'[t].expires = now + CACHE_TTL]_vars

\* A request was authenticated from the cache, with the handle cached before
\* the account changed it, at a time the hosts answer the new one.
C5_Witness ==
    \E r \in DOMAIN reqs :
        /\ reqs[r].hit /\ reqs[r].pc = "done"
        /\ reqs[r].fetched = 0
        /\ reqs[r].at >= CACHE_TTL
        /\ reqs[r].auth.handle # HandleAt(reqs[r].at)
        /\ reqs[r].resp.status = 200

\* C6: negative results are not cached.  A getSession answer that does not
\* authenticate leaves the cache as it was, so does the null validateToken
\* returns after the last host; an entry is only ever the session of its
\* token; and a call that finds no unexpired entry goes to the hosts, whose
\* acceptance then authenticates it.  (SpecAuth)
C6_NegativeNotCached ==
    [][\A r \in DOMAIN reqs :
          LET p == reqs[r]
              q == reqs'[r]
              token == q.header.token
          IN  /\ (p.pc = "host" /\ q.fetched > p.fetched /\ q.auth = NoAuth) =>
                    didCache' = didCache
              /\ (p.pc = "host" /\ q.fetched > p.fetched /\ q.auth # NoAuth) =>
                    /\ q.auth.did = SessionDid(token)
                    /\ didCache'[token] # NoEntry
              /\ \A t \in Tokens :
                    didCache'[t] # NoEntry => didCache'[t].did = SessionDid(t)
              /\ (C4_Called(r) /\ didCache[token] = NoEntry) =>
                    q.pc = "host" /\ q.fetched = 0]_vars

\* A request was answered 401 after both hosts refused its token, the cache
\* holding nothing for it, and a request that arrived later with the same token
\* was authenticated by a host.
C6_Witness ==
    \E r1, r2 \in DOMAIN reqs :
        /\ reqs[r1].pc = "done" /\ reqs[r1].resp.status = 401
        /\ HasBearer(reqs[r1].header)
        /\ reqs[r1].fetched = Len(commonPDSHosts)
        /\ reqs[r2].header = reqs[r1].header
        /\ reqs[r2].at > reqs[r1].end
        /\ reqs[r2].pc = "exec" /\ ~reqs[r2].hit
        /\ reqs[r2].auth # NoAuth
        /\ didCache[reqs[r2].header.token].expires = reqs[r2].at + CACHE_TTL

\* C10: a duplicate record key is never silently overwritten.  No step changes
\* or removes a stored row; no two rows have one key; every row is the row of
\* the one createRecord that succeeded with its key; and a valid authenticated
\* create with a key of the client's is answered 400 InvalidRequest, leaving
\* the store as it was, when a row with that key is stored, and otherwise
\* stores its row.  (SpecConc)
C10_DuplicateKeyNeverOverwritten ==
    [][/\ \A row \in store : row \in store'
       /\ \A x, y \in store' : x.id = y.id => x = y
       /\ \A e1, e2 \in created' : e1.uri[4] = e2.uri[4] => e1 = e2
       /\ \A row \in store' :
             \E e \in created' :
                 /\ e.uri = row.uri /\ e.uri[4] = row.id
                 /\ e.cid = row.cid /\ e.did = row.authorDid
       /\ \A r \in DOMAIN reqs :
             LET q == reqs'[r]
                 key == Get(q.in.body, "rkey")
             IN  (reqs[r].pc # "done" /\ q.pc = "done" /\ q.ep = "createRecord"
                    /\ q.auth # NoAuth /\ ~C8_Rejected(q.in.body) /\ TruthyValue(key)) =>
                    IF \E row \in store : row.id = key
                    THEN /\ q.resp.status = 400
                         /\ q.resp.error = "InvalidRequest"
                         /\ store' = store
                         /\ created' = created
                    ELSE /\ q.resp.status = 200
                         /\ \E row \in store' :
                               /\ row.id = key
                               /\ row.authorDid = q.auth.did
                               /\ row.uri = q.resp.data.uri
                               /\ row.cid = q.resp.data.cid]_vars

\* Two creates with one key have been answered, one 200 and the other 400, and
\* the stored row is that of the first.
C10_Witness ==
    \E r1, r2 \in DOMAIN reqs :
        /\ reqs[r1].pc = "done" /\ reqs[r2].pc = "done"
        /\ Get(reqs[r1].in.body, "rkey") = ClientKey
        /\ Get(reqs[r2].in.body, "rkey") = ClientKey
        /\ reqs[r1].resp.status = 200
        /\ reqs[r2].resp.status = 400
        /\ reqs[r2].touched
        /\ \E row \in store :
              /\ row.id = ClientKey
              /\ row.cid = reqs[r1].resp.data.cid
              /\ row.authorDid = reqs[r1].auth.did


\* C11: creates from different owners never conflict.  Every valid
\* authenticated createRecord is answered 200 and its row is stored, unless a
\* check-in of the same owner with its key is stored already: a key need only
\* be unique per owner.  (SpecConc; violated: id alone is the PRIMARY KEY of
\* anchor_checkins_v3, so the second owner's create with a key the first owner
\* used is answered 400.)
C11_OwnersNeverConflict ==
    \A r \in DOMAIN reqs :
        LET q == reqs[r]
            key == Get(q.in.body, "rkey")
        IN  (q.pc = "done" /\ q.ep = "createRecord" /\ q.auth # NoAuth
               /\ ~C8_Rejected(q.in.body) /\ TruthyValue(key)) =>
               \/ /\ q.resp.status = 200
                  /\ \E row \in store : row.uri = q.resp.data.uri /\ row.authorDid = q.auth.did
               \/ /\ q.resp.status = 400
                  /\ \E row \in store : row.id = key /\ row.authorDid = q.auth.did


\* C12: uri derivation.  Every stored check-in has
\* uri = createAtUri(authorDid, "app.dropanchor.checkin", id), the uri a
\* successful createRecord answered is that of its row, and no two stored
\* check-ins have one uri.  (Spec)
C12_UriDerivation ==
    /\ \A row \in store :
          /\ row.uri = createAtUri(row.authorDid, CheckinCollection, row.id)
          /\ row.uri = <<"at:", row.authorDid, CheckinCollection, row.id>>
    /\ \A x, y \in store : x.uri = y.uri => x = y
    /\ \A e \in created : \E row \in store : row.uri = e.uri /\ row.id = e.uri[4]

\* A check-in under a key of the client's and one under a generated key are
\* stored.
C12_Witness ==
    /\ \E row \in store : row.id = ClientKey
    /\ \E row \in store : row.id # ClientKey

\* C13: stored check-ins are immutable.  No step (of a createRecord, getRecord,
\* listCheckins or getGlobalFeed request, of a read or an update of the user
\* settings) changes or removes a stored row; the store changes only by the
\* one row a createRecord answered 200 adds, and every other step leaves it as
\* it was.  (SpecStore)
C13_StoredCheckinsImmutable ==
    [][/\ \A row \in store : row \in store'
       /\ store' # store =>
             \E r \in DOMAIN reqs :
                 /\ reqs[r].pc # "done" /\ reqs'[r].pc = "done"
                 /\ reqs'[r].ep = "createRecord"
                 /\ reqs'[r].resp.status = 200
                 /\ \E row \in store' :
                       /\ row \notin store
                       /\ row.uri = reqs'[r].resp.data.uri
                       /\ store' = store \cup {row}
       /\ (\A r \in DOMAIN reqs : reqs'[r].ep # "createRecord" \/ reqs'[r].pc # "done") =>
             store' = store]_vars

\* With check-ins stored, the settings of an author were updated and read, and
\* a create under a stored key was answered with an error.
C13_Witness ==
    /\ Cardinality(store) >= 2
    /\ \E row \in store : settings[row.authorDid] = [k |-> "row", enableFeedPosts |-> FALSE]
    /\ feed # NoFeed /\ feed.result.enableFeedPosts = FALSE
    /\ \E r \in DOMAIN reqs :
          /\ reqs[r].pc = "done" /\ reqs[r].ep = "createRecord"
          /\ reqs[r].resp.status = 400 /\ reqs[r].touched


\* C14: getRecord needs no authentication.  A finished getRecord request that
\* carried no Authorization header and named a uri made no getSession call and
\* was answered 200 with the stored check-in of that uri when one is stored,
\* 404 RecordNotFound when none is, and never 401.  (Spec)
C14_GetRecordNeedsNoAuthentication ==
    \A r \in DOMAIN reqs :
        LET q == reqs[r]
            rows == {row \in store : row.uri = q.in.uri}
        IN  (q.pc = "done" /\ q.ep = "getRecord" /\ q.header = NoHeader /\ q.in.uri # << >>) =>
               /\ q.fetched = 0 /\ q.auth = NoAuth
               /\ q.resp.status # 401 /\ q.resp.error # "AuthenticationRequired"
               /\ rows # {} =>
                     /\ q.resp.status = 200
                     /\ \E row \in rows :
                           /\ q.resp.data.uri = row.uri
                           /\ q.resp.data.cid = row.cid
                           /\ q.resp.data.value.text = row.text
                           /\ q.resp.data.value.createdAt = row.createdAt
               /\ rows = {} =>
                     /\ q.resp.status = 404
                     /\ q.resp.error = "RecordNotFound"
                     /\ q.resp.data = NoData

\* A getRecord without a header was answered 200 with a stored check-in that
\* has a location, while a check-in of the other identity is not stored.
C14_Witness ==
    \E r \in DOMAIN reqs :
        /\ reqs[r].pc = "done" /\ reqs[r].ep = "getRecord"
        /\ reqs[r].header = NoHeader
        /\ reqs[r].resp.status = 200
        /\ reqs[r].resp.data.value.locations # Undefined
        /\ \E u \in UriParams : u # << >> /\ ~\E row \in store : row.uri = u


\* The stored rows a feed call is to return from: those of the owner (for
\* getCheckinsByAuthor) with createdAt strictly less than the cursor (when a
\* cursor is given; an empty string is no cursor).
C15_Eligible ==
    {row \in store :
        /\ feed.op = "getCheckinsByAuthor" => row.authorDid = feed.authorDid
        /\ Truthy(feed.cursor) => row.createdAt.c < feed.cursor.c}

C15_Count ==
    IF feed.op = "getGlobalFeed"
    THEN Min(Min(feed.limit, GLOBAL_FEED_MAX), Cardinality(C15_Eligible))
    ELSE Min(feed.limit, Cardinality(C15_Eligible))

\* C15: feed page content.  With limit >= 0, the page getCheckinsByAuthor
\* returns is the first limit (for getGlobalFeed the first min(limit, 100)) of
\* the eligible rows in descending createdAt: it has that many rows or all of
\* them, each the conversion of an eligible row, none twice, in descending
\* createdAt, and no row left out is newer than a row of the page.  (SpecFeed)
C15_FeedPageContent ==
    (feed.op \in {"getGlobalFeed", "getCheckinsByAuthor"} /\ feed.limit >= 0) =>
        LET page == feed.page
        IN  /\ Len(page) = C15_Count
            /\ \A i \in 1..Len(page) : \E row \in C15_Eligible : page[i] = RowToCheckin(row)
            /\ \A i, j \in 1..Len(page) :
                  i < j => /\ page[i].createdAt.c >= page[j].createdAt.c
                           /\ page[i].uri # page[j].uri
            /\ \A row \in C15_Eligible :
                  (\A i \in 1..Len(page) : page[i].uri # row.uri) =>
                      \A i \in 1..Len(page) : page[i].createdAt.c >= row.createdAt.c

\* getCheckinsByAuthor with a cursor returned a full page of several rows,
\* leaving out older rows of the owner, a row the cursor excludes and the rows
\* of the other author.
C15_Witness ==
    /\ feed.op = "getCheckinsByAuthor"
    /\ Truthy(feed.cursor)
    /\ feed.limit > 1 /\ Len(feed.page) = feed.limit
    /\ Cardinality(C15_Eligible) > feed.limit
    /\ \E row \in store : row.createdAt.c >= feed.cursor.c
    /\ \E row \in store : row.authorDid # feed.authorDid


\* The rejections in the order of the rules, and the rules an input violates,
\* each taken by itself.
C16_Messages ==
    << "Record must be an object",
       "Record must have a text field",
       "text must be 300 characters or less",
       "Record must have a createdAt field",
       "createdAt must be a valid ISO timestamp",
       "locations must be an array",
       "(the error of the first invalid element)",
       "category must be a non-empty string",
       "category must be 50 characters or less",
       "categoryGroup must be a non-empty string",
       "categoryGroup must be 50 characters or less",
       "categoryIcon must be a non-empty string",
       "categoryIcon must be 10 characters or less" >>

C16_Empty(v) == v # Undefined /\ (~IsString(v) \/ v.n = 0)
C16_Long(v, max) == IsString(v) /\ v.n > max
C16_BadElements(x) ==
    IF Get(x, "locations").k = "arr"
    THEN {i \in 1..Len(Get(x, "locations").a) : ~ValidateLocation(Get(x, "locations").a[i]).ok}
    ELSE {}

C16_Violated(x) ==
    LET holds ==
          << x.k \notin {"obj", "arr"},
             ~IsString(Get(x, "text")) \/ Get(x, "text").n = 0,
             C16_Long(Get(x, "text"), MAX_TEXT),
             ~IsString(Get(x, "createdAt")) \/ Get(x, "createdAt").n = 0,
             IsString(Get(x, "createdAt")) /\ ~DateParses(Get(x, "createdAt")),
             Get(x, "locations") # Undefined /\ Get(x, "locations").k # "arr",
             C16_BadElements(x) # {},
             C16_Empty(Get(x, "category")),
             C16_Long(Get(x, "category"), MAX_CATEGORY),
             C16_Empty(Get(x, "categoryGroup")),
             C16_Long(Get(x, "categoryGroup"), MAX_CATEGORY),
             C16_Empty(Get(x, "categoryIcon")),
             C16_Long(Get(x, "categoryIcon"), MAX_CATEGORY_ICON) >>
    IN  {i \in 1..Len(holds) : holds[i]}

C16_First(S) == CHOOSE i \in S : \A j \in S : i <= j

\* C16: first failure wins.  validateCheckinRecord accepts an input exactly
\* when it violates no rule, and otherwise throws the rejection of the earliest
\* rule violated, in the order not an object, text (missing, too long),
\* createdAt (missing, unparseable), locations (not an array, then the first
\* invalid element in array order), category, categoryGroup, categoryIcon.
\* (SpecValidate)
C16_FirstFailureWins ==
    val.pc \in {"returned", "again"} =>
        LET bad == C16_Violated(val.x)
        IN  IF bad = {} THEN val.out.ok
            ELSE /\ ~val.out.ok
                 /\ IF C16_First(bad) = 7
                    THEN val.out =
                            ValidateLocation(Get(val.x, "locations").a[C16_First(C16_BadElements(val.x))])
                    ELSE val.out.msg = C16_Messages[C16_First(bad)]

\* An input without text, with an unparseable createdAt, two invalid location
\* elements of different kinds and an empty category was rejected.
C16_Witness ==
    /\ val.pc = "returned"
    /\ ~val.out.ok
    /\ {2, 5, 7, 8} \subseteq C16_Violated(val.x)
    /\ Cardinality(C16_BadElements(val.x)) = 2
    /\ ValidateLocation(Get(val.x, "locations").a[1]).msg
          # ValidateLocation(Get(val.x, "locations").a[2]).msg


\* The elements of x.locations that carry a type tag other than geo and address.
C17_Unsupported(x) ==
    IF Get(x, "locations").k = "arr"
    THEN {i \in 1..Len(Get(x, "locations").a) :
             /\ TruthyValue(Get(Get(x, "locations").a[i], "$type"))
             /\ Get(Get(x, "locations").a[i], "$type") \notin {GeoType, AddressType}}
    ELSE {}

\* C17 as stated: an input with a location element of an unsupported type is
\* rejected with the unsupported-location-type error naming the tag, whatever
\* its other elements and fields are.  (SpecValidate; violated: a rule or an
\* element that comes earlier and fails gives its own error.)
C17_UnsupportedTypeErrorWhateverElse ==
    (val.pc \in {"returned", "again"} /\ C17_Unsupported(val.x) # {}) =>
        /\ ~val.out.ok
        /\ val.out.msg = "Unsupported location type"
        /\ \E i \in C17_Unsupported(val.x) :
              val.out.tag = Get(Get(val.x, "locations").a[i], "$type")

\* C17: no partial acceptance of locations.  An input with a location element
\* of an unsupported type is never accepted, so no record with the element
\* dropped is returned; the error is the unsupported-location-type error
\* naming the tag of the first such element when the record passes the rules
\* for the object, text and createdAt and every element before it is valid,
\* and the error of the earliest failing rule or element otherwise.
\* (SpecValidate)
C17_NoPartialAcceptance ==
    (val.pc \in {"returned", "again"} /\ C17_Unsupported(val.x) # {}) =>
        LET first == C16_First(C17_Unsupported(val.x))
            earlier == C16_Violated(val.x) \cap 1..6
        IN  /\ ~val.out.ok
            /\ (earlier = {} /\ C16_First(C16_BadElements(val.x)) = first) =>
                  /\ val.out.msg = "Unsupported location type"
                  /\ val.out.tag = Get(Get(val.x, "locations").a[first], "$type")
            /\ earlier # {} => val.out.msg = C16_Messages[C16_First(earlier)]
            /\ (earlier = {} /\ C16_First(C16_BadElements(val.x)) < first) =>
                  val.out.msg # "Unsupported location type"

\* A record with valid text, createdAt and category whose second location,
\* after a valid geo location, has an unsupported type was rejected with the
\* error naming the tag.
C17_Witness ==
    /\ val.pc = "returned"
    /\ C16_Violated(val.x) = {7}
    /\ C17_Unsupported(val.x) = {2}
    /\ Get(val.x, "category") # Undefined
    /\ ~val.out.ok
    /\ val.out.msg = "Unsupported location type"
    /\ val.out.tag = UnknownType


\* The geo elements of a record's locations, and what their coordinates denote.
C18_Geos(record) ==
    IF Get(record, "locations").k = "arr"
    THEN {Get(record, "locations").a[i] : i \in
             {j \in 1..Len(Get(record, "locations").a) :
                 Get(Get(record, "locations").a[j], "$type") = GeoType}}
    ELSE {}
C18_Numeric(l) ==
    /\ IsString(Get(l, "latitude")) /\ ~parseFloat(Get(l, "latitude")).nan
    /\ IsString(Get(l, "longitude")) /\ ~parseFloat(Get(l, "longitude")).nan
C18_InRange(l) ==
    /\ C18_Numeric(l)
    /\ parseFloat(Get(l, "latitude")).v \in -90..90
    /\ parseFloat(Get(l, "longitude")).v \in -180..180

\* C18: coordinate range.  A record with a geo location whose latitude denotes
\* a number outside [-90, 90] or whose longitude denotes one outside
\* [-180, 180] is rejected, with the range error of the coordinate when
\* nothing before it fails; a record that violates no other rule and whose geo
\* locations all have numeric coordinates is accepted exactly when all are in
\* range, bounds included; and every geo location of a returned record is in
\* range and has the coordinates of the input.  (SpecValidate)
C18_CoordinateRange ==
    val.pc \in {"returned", "again"} =>
        LET geos == C18_Geos(val.x)
            out == {l \in geos : C18_Numeric(l) /\ ~C18_InRange(l)}
        IN  /\ out # {} => ~val.out.ok
            /\ (out # {} /\ C16_Violated(val.x) = {7} /\ Cardinality(C16_BadElements(val.x)) = 1) =>
                  \E l \in out :
                      val.out.msg =
                         IF parseFloat(Get(l, "latitude")).v \notin -90..90
                         THEN "latitude must be a valid number between -90 and 90"
                         ELSE "longitude must be a valid number between -180 and 180"
            /\ (C16_Violated(val.x) \ {7} = {} /\ geos # {}
                  /\ Len(Get(val.x, "locations").a) = Cardinality(geos)
                  /\ \A l \in geos : C18_Numeric(l)) =>
                  (val.out.ok <=> \A l \in geos : C18_InRange(l))
            /\ val.out.ok =>
                  \A l \in C18_Geos(val.out.v) :
                      /\ C18_InRange(l)
                      /\ \E m \in geos :
                            /\ Get(m, "latitude") = Get(l, "latitude")
                            /\ Get(m, "longitude") = Get(l, "longitude")

\* A geo location at latitude 90 and longitude -180 was accepted.
C18_Witness ==
    /\ val.pc = "returned"
    /\ val.out.ok
    /\ \E l \in C18_Geos(val.out.v) :
          /\ parseFloat(Get(l, "latitude")).v = 90
          /\ parseFloat(Get(l, "longitude")).v = -180


\* C19: validation is idempotent and value-preserving.  For every input x the
\* validator accepts, the record returned has the text, createdAt, locations,
\* category, categoryGroup and categoryIcon of x, and validating it again
\* succeeds and returns an equal record.  (SpecValidate; violated: the
\* locations of the returned record are rebuilt, an empty array is left out
\* and the fields of an element that are not validated are not copied.)
C19_IdempotentValuePreserving ==
    val.pc = "again" =>
        /\ \A name \in C9_Fields : Get(val.out.v, name) = Get(val.x, name)
        /\ val.again.ok
        /\ val.again.v = val.out.v


\* The three category fields in the order the validator takes them, with
\* their ceilings and the two rejections of each.
C20_Names == <<"category", "categoryGroup", "categoryIcon">>

C20_Max == [category |-> MAX_CATEGORY, categoryGroup |-> MAX_CATEGORY,
            categoryIcon |-> MAX_CATEGORY_ICON]

C20_Errors ==
    [category |-> [empty |-> "category must be a non-empty string",
                   long |-> "category must be 50 characters or less"],
     categoryGroup |-> [empty |-> "categoryGroup must be a non-empty string",
                        long |-> "categoryGroup must be 50 characters or less"],
     categoryIcon |-> [empty |-> "categoryIcon must be a non-empty string",
                       long |-> "categoryIcon must be 10 characters or less"]]

C20_Present(x, name) == Get(x, name) # Undefined

C20_Valid(x, name) ==
    /\ IsString(Get(x, name))
    /\ Get(x, name).n >= 1
    /\ Get(x, name).n <= C20_Max[name]

\* The positions in C20_Names of the fields of x that are present and invalid.
C20_Invalid(x) == {i \in 1..3 : C20_Present(x, C20_Names[i]) /\ ~C20_Valid(x, C20_Names[i])}

\* C20: category fields are validated independently.  For an input that
\* passes the rules on text, createdAt and locations: if one of category,
\* categoryGroup, categoryIcon is present and is not a non-empty string of at
\* most 50, 50, 10 characters, the record is rejected and the error names the
\* first such field (the only one, when the other two are absent or valid);
\* otherwise the record is accepted, every field absent in the input is absent
\* in the output whatever the other two are, and every present field is in
\* the output unchanged.  (SpecValidate)
C20_CategoryFieldsIndependent ==
    (val.pc \in {"returned", "again"} /\ C16_Violated(val.x) \cap (1..7) = {}) =>
        LET bad == C20_Invalid(val.x)
            name == C20_Names[C16_First(bad)]
            v == Get(val.x, name)
        IN  IF bad # {}
            THEN /\ ~val.out.ok
                 /\ val.out.msg = IF IsString(v) /\ v.n > C20_Max[name]
                                  THEN C20_Errors[name].long
                                  ELSE C20_Errors[name].empty
            ELSE /\ val.out.ok
                 /\ \A i \in 1..3 :
                       IF C20_Present(val.x, C20_Names[i])
                       THEN /\ C20_Names[i] \in DOMAIN val.out.v.o
                            /\ val.out.v.o[C20_Names[i]] = Get(val.x, C20_Names[i])
                       ELSE C20_Names[i] \notin DOMAIN val.out.v.o

\* A record with a category and an icon at their ceilings and no
\* categoryGroup was accepted, and the output has no categoryGroup.
C20_Witness ==
    /\ val.pc = "returned"
    /\ val.out.ok
    /\ C20_Present(val.x, "category") /\ Get(val.x, "category").n = MAX_CATEGORY
    /\ ~C20_Present(val.x, "categoryGroup")
    /\ C20_Present(val.x, "categoryIcon") /\ Get(val.x, "categoryIcon").n = MAX_CATEGORY_ICON
    /\ "categoryGroup" \notin DOMAIN val.out.v.o
    /\ val.out.v.o["category"] = Get(val.x, "category")

\* C21: absent locations is distinct from empty locations.  Validating an
\* accepted input whose locations is the empty array returns a record whose
\* locations is present and is the empty sequence, and validating one without
\* a locations field returns a record without one.  (SpecValidate; violated:
\* validatedRecord.locations is assigned only when an element was validated,
\* so the empty array comes out as no field, the same as an absent one.)
C21_AbsentDistinctFromEmpty ==
    (val.pc \in {"returned", "again"} /\ val.out.ok) =>
        /\ Get(val.x, "locations") = Arr(<< >>) =>
              /\ "locations" \in DOMAIN val.out.v.o
              /\ val.out.v.o["locations"] = Arr(<< >>)
        /\ Get(val.x, "locations") = Undefined => "locations" \notin DOMAIN val.out.v.o

\* The record a read returns for a stored row whose locations cell is not
\* JSON: every field of the row but the locations, and no locations.
C22_Degraded(checkin, row) ==
    LET cell(c) == IF c = Null THEN Undefined ELSE c
    IN  /\ checkin.id = row.id /\ checkin.uri = row.uri /\ checkin.cid = row.cid
        /\ checkin.authorDid = row.authorDid
        /\ checkin.text = row.text /\ checkin.createdAt = row.createdAt
        /\ checkin.category = cell(row.category)
        /\ checkin.categoryGroup = cell(row.categoryGroup)
        /\ checkin.categoryIcon = cell(row.categoryIcon)
        /\ checkin.locations = (IF row.locations.k = "json" THEN row.locations.v ELSE Undefined)

\* The store with every locations cell that is not JSON set to NULL.
C22_Repaired(st) ==
    {IF r.locations.k = "str" THEN [r EXCEPT !.locations = Null] ELSE r : r \in st}

\* C22: corrupted stored locations degrade one field only.  On a store with
\* locations cells that are not parseable JSON, getCheckinByUri,
\* getCheckinsByAuthor and getGlobalFeed return (no error raised) what they
\* return on the same store with those cells NULL: the same rows in the page,
\* each record with every field of its row and with locations absent when the
\* cell is corrupted, the value of the cell otherwise.  (SpecCorrupt)
C22_CorruptLocationsDegradeOneField ==
    /\ feed.op = "getCheckinByUri" =>
          /\ feed.record \in getCheckinByUri(C22_Repaired(store), feed.uri)
          /\ (\E r \in store : r.uri = feed.uri) =>
                \E r \in store : r.uri = feed.uri /\ C22_Degraded(feed.record, r)
    /\ feed.op \in {"getGlobalFeed", "getCheckinsByAuthor"} =>
          /\ feed.op = "getGlobalFeed" =>
                feed.page \in getGlobalFeed(C22_Repaired(store), feed.limit, feed.cursor)
          /\ feed.op = "getCheckinsByAuthor" =>
                feed.page \in getCheckinsByAuthor(C22_Repaired(store), feed.authorDid,
                                                  feed.limit, feed.cursor)
          /\ \A i \in 1..Len(feed.page) :
                \E r \in store : r.uri = feed.page[i].uri /\ C22_Degraded(feed.page[i], r)

\* A page of getCheckinsByAuthor held the record of a row with a corrupted
\* cell, without locations, next to one of a row with its locations.
C22_Witness ==
    /\ feed.op = "getCheckinsByAuthor"
    /\ \E i, j \in 1..Len(feed.page) :
         /\ \E r \in store : r.uri = feed.page[i].uri /\ r.locations.k = "str"
         /\ feed.page[i].locations = Undefined
         /\ feed.page[i].category # Undefined
         /\ feed.page[j].locations # Undefined

\* The kinds of the error taxonomy.
C23_Taxonomy ==
    {"AuthenticationRequired", "Forbidden", "InvalidRequest", "RecordNotFound", "NotFound",
     "MethodNotImplemented"}

\* C23: every storage error is mapped at the request boundary.  A request
\* (createRecord, getRecord, listCheckins or getGlobalFeed) during which the
\* record store raised an error is answered with one of the taxonomy kinds,
\* a 4xx status and a message; the error does not leave the handler.
\* (SpecFail; violated: only createRecord has a try around its store call,
\* the errors of the three reads leave their handlers and app.onError throws
\* them again.)
C23_StorageErrorsMapped ==
    \A r \in DOMAIN reqs :
        (reqs[r].pc = "done" /\ reqs[r].resp.message = StoreError) =>
            /\ reqs[r].resp.error \in C23_Taxonomy
            /\ reqs[r].resp.status >= 400 /\ reqs[r].resp.status < 500

\* C24: listCheckins returns at most 100 records per response for every value
\* of the limit parameter (any integer, zero and negative included), and at
\* most 50 when the parameter is absent.  (SpecList; violated: a negative
\* limit passes Math.min(parseInt(limit), 100) unchanged and SQLite's LIMIT
\* with a negative value does not limit.)
C24_ListCheckinsAtMost100 ==
    \A r \in DOMAIN reqs :
        (reqs[r].pc = "done" /\ reqs[r].ep = "listCheckins" /\ reqs[r].resp.status = 200) =>
            /\ Len(reqs[r].resp.data.checkins) <= GLOBAL_FEED_MAX
            /\ reqs[r].in.limit = NoLimit => Len(reqs[r].resp.data.checkins) <= DEFAULT_LIMIT

\* C25: host order and stop at first success.  On a cache miss validateToken
\* asks the hosts one at a time in the order https://bsky.social, then
\* https://staging.bsky.dev; the first host that answers with a session
\* determines the identity returned and cached, no host is asked after a
\* success, and a later host is asked only after every earlier host failed
\* (leaving the cache as it was).  (SpecAuth)
C25_HostOrderStopAtFirstSuccess ==
    [][\A r \in DOMAIN reqs :
          LET p == reqs[r]
              q == reqs'[r]
              token == q.header.token
              last == Len(commonPDSHosts)
          IN  /\ commonPDSHosts = <<"https://bsky.social", "https://staging.bsky.dev">>
              /\ (p.pc # "host" /\ q.pc = "host") => (q.host = 1 /\ q.fetched = 0)
              /\ (p.pc = "host" /\ q # p) =>
                    /\ q.fetched = p.fetched + 1
                    /\ p.host = q.fetched
                    /\ \/ /\ q.auth = AuthContext(SessionDid(token), HandleAt(now))
                          /\ q.pc = "exec"
                          /\ didCache'[token] = [k |-> "entry", did |-> q.auth.did,
                                                 handle |-> q.auth.handle,
                                                 expires |-> now + CACHE_TTL]
                       \/ /\ q.auth = NoAuth /\ didCache'[token] = didCache[token]
                          /\ p.host < last
                          /\ q.pc = "host" /\ q.host = p.host + 1
                       \/ /\ q.auth = NoAuth /\ didCache'[token] = didCache[token]
                          /\ p.host = last
                          /\ q.pc = "done"
              /\ (p.pc \in {"exec", "done"} /\ q.pc # "idle") =>
                    (q.fetched = p.fetched /\ q.auth = p.auth)]_vars

\* A request was authenticated by the second host after the first one failed,
\* and the cache holds the identity that host answered.
C25_Witness ==
    \E r \in DOMAIN reqs :
        /\ reqs[r].pc = "exec" /\ ~reqs[r].hit
        /\ reqs[r].fetched = 2 /\ reqs[r].host = 2
        /\ reqs[r].auth # NoAuth
        /\ didCache[reqs[r].header.token].did = reqs[r].auth.did
        /\ didCache[reqs[r].header.token].handle = reqs[r].auth.handle

\* C26: provider failures are recovered locally.  When the getSession call to
\* a host fails in transport (the fetch throws) or the host answers with a
\* rejection, validateToken goes on to the next host; it raises nothing to
\* its caller; it returns null exactly when no host answered with a session
\* (after the last host failed, every earlier one having failed), and the
\* handler of each protected endpoint then answers 401
\* AuthenticationRequired; no request is answered with a 5xx.  (Spec)
C26_ProviderFailuresRecovered ==
    [][\A r \in DOMAIN reqs :
          LET p == reqs[r]
              q == reqs'[r]
              last == Len(commonPDSHosts)
          IN  /\ (p.pc = "host" /\ q # p) =>
                    /\ q.answer \in {"ok", "rejected", "throws"}
                    /\ q.answer = "ok" => (q.auth # NoAuth /\ q.pc = "exec")
                    /\ (q.answer \in {"rejected", "throws"} /\ p.host < last) =>
                          (q.pc = "host" /\ q.host = p.host + 1 /\ q.auth = NoAuth)
                    /\ (q.answer \in {"rejected", "throws"} /\ p.host = last) =>
                          /\ q.pc = "done" /\ q.auth = NoAuth
                          /\ q.ep \in Protected
                          /\ q.resp.status = 401
                          /\ q.resp.error = "AuthenticationRequired"
              /\ (q.pc = "host" /\ q.host > 1) => q.answer \in {"rejected", "throws"}
              /\ (p.pc = "host" /\ q.pc = "done") =>
                    (q.answer # "ok" /\ q.fetched = last /\ q.auth = NoAuth)
              /\ q.pc = "done" => q.resp.status < 500]_vars

\* A createRecord request was answered 401 after the call to the last host
\* failed in transport.
C26_Witness ==
    \E r \in DOMAIN reqs :
        /\ reqs[r].ep = "createRecord"
        /\ reqs[r].pc = "done"
        /\ reqs[r].fetched = Len(commonPDSHosts)
        /\ reqs[r].answer = "throws"
        /\ reqs[r].resp.status = 401
        /\ reqs[r].resp.error = "AuthenticationRequired"

\* Request r is resumed by a session and writes the entry of its token, which
\* a call made concurrently wrote before: the entry was set after r arrived
\* (r missed the cache, so an entry set before r arrived had expired).
C27_ConcurrentWrite(r) ==
    LET token == reqs[r].header.token
    IN  /\ reqs[r].pc = "host"
        /\ reqs'[r] # reqs[r]
        /\ reqs'[r].auth # NoAuth
        /\ didCache[token] # NoEntry
        /\ didCache[token].expires - CACHE_TTL >= reqs[r].at

\* C27 as stated: for every interleaving of concurrent validateToken calls on
\* one token, every write to the token's entry stores the same identity, did
\* and handle.  (SpecAuth; violated: the handle written is the one the host
\* reports when it answers, and the account can change it between the answers
\* to two concurrent calls.)
C27_ConcurrentWritesSameIdentity ==
    [][\A r \in DOMAIN reqs :
          LET token == reqs[r].header.token
          IN  C27_ConcurrentWrite(r) =>
                 /\ didCache'[token].did = didCache[token].did
                 /\ didCache'[token].handle = didCache[token].handle]_vars

\* C27, amended: for every interleaving of concurrent validateToken calls on
\* one token, every write to the token's entry stores the same did; the handle
\* it stores is the one the host reported in the answer that caused the write,
\* and the expiry is never earlier than the one it replaces.  (SpecAuth)
C27_ConcurrentWritesSameDid ==
    [][\A r \in DOMAIN reqs :
          LET token == reqs[r].header.token
          IN  C27_ConcurrentWrite(r) =>
                 /\ didCache'[token].did = didCache[token].did
                 /\ didCache'[token].did = reqs'[r].auth.did
                 /\ didCache'[token].handle = HandleAt(now)
                 /\ didCache'[token].handle = reqs'[r].auth.handle
                 /\ didCache'[token].expires >= didCache[token].expires]_vars

\* Two calls on one token arrived at the same time, both missed the cache and
\* both were answered by a host, with different handles; the entry holds one
\* of the two identities.
C27_Witness ==
    \E r1, r2 \in DOMAIN reqs :
        /\ r1 # r2
        /\ HasBearer(reqs[r1].header) /\ reqs[r2].header = reqs[r1].header
        /\ reqs[r1].at = reqs[r2].at
        /\ ~reqs[r1].hit /\ ~reqs[r2].hit
        /\ reqs[r1].auth # NoAuth /\ reqs[r2].auth # NoAuth
        /\ reqs[r1].auth.did = reqs[r2].auth.did
        /\ reqs[r1].auth.handle # reqs[r2].auth.handle
        /\ didCache[reqs[r1].header.token].handle = reqs[r2].auth.handle

\* C28: a cursor walk never returns a record twice.  When a client pages
\* through getCheckinsByAuthor or getGlobalFeed passing the createdAt of the
\* last row of each page as the next cursor, every record of a page is
\* strictly older than the cursor and was in no earlier page, also when
\* records share a createdAt and when records are created between two calls;
\* so no record is in two pages, and a record that ties with the cursor is
\* not returned by the calls that follow.  (SpecLive)
C28_WalkNeverReturnsTwice ==
    [][walk' # walk =>
          LET new == SubSeq(walk'.seen, Len(walk.seen) + 1, Len(walk'.seen))
          IN  /\ \A i, j \in 1..Len(walk'.seen) : walk'.seen[i] = walk'.seen[j] => i = j
              /\ \A i \in 1..Len(new) :
                    \E row \in store :
                       /\ row.uri = new[i]
                       /\ walk.cursor # Undefined => row.createdAt.c < walk.cursor.c
              /\ walk.cursor # Undefined =>
                    \A row \in store :
                       row.createdAt = walk.cursor =>
                          \A i \in 1..Len(new) : new[i] # row.uri]_vars

\* A walk of three calls or more, during which a check-in was created (the
\* store holds more rows than the bound of the initial store), on a store in
\* which a row the walk returned ties with a row it did not return.
C28_Witness ==
    /\ walk.pc = "done"
    /\ walk.calls >= 3
    /\ Cardinality(store) > MaxRows
    /\ \E x, y \in store :
         /\ x # y /\ x.createdAt = y.createdAt
         /\ x.authorDid = y.authorDid
         /\ \E i \in 1..Len(walk.seen) : walk.seen[i] = x.uri
         /\ \A i \in 1..Len(walk.seen) : walk.seen[i] # y.uri

\* C29: the owner of a record is always the authenticated caller.  A
\* createRecord request that stores a check-in stores one row, whose authorDid
\* and the identity in whose uri are the did validateToken resolved for the
\* request's token, whatever the body holds (a repo of another account
\* included); and every stored row is the row of such a request.  (SpecConc)
C29_OwnerIsAuthenticatedCaller ==
    [][/\ \A r \in DOMAIN reqs :
             LET p == reqs[r]
                 q == reqs'[r]
             IN  (q # p /\ q.pc = "done" /\ q.resp.status = 200) =>
                    /\ q.auth # NoAuth
                    /\ q.auth.did = SessionDid(q.header.token)
                    /\ \E row \in store' :
                          /\ row \notin store
                          /\ store' = store \cup {row}
                          /\ row.authorDid = q.auth.did
                          /\ row.uri[2] = q.auth.did
                          /\ row.uri = q.resp.data.uri
       /\ \A row \in store' :
             /\ row.uri[2] = row.authorDid
             /\ \E e \in created' : e.uri = row.uri /\ e.did = row.authorDid]_vars

\* Alice's request naming bob's repository in its body stored a check-in,
\* under alice's identity, while bob has a check-in stored too.
C29_Witness ==
    \E r \in DOMAIN reqs :
        /\ reqs[r].pc = "done" /\ reqs[r].resp.status = 200
        /\ reqs[r].header = Bearer("tokA")
        /\ Get(reqs[r].in.body, "repo") # Undefined
        /\ \E row \in store :
             row.uri = reqs[r].resp.data.uri /\ row.authorDid = "did:plc:alice"
        /\ \E row \in store : row.authorDid = "did:plc:bob"

\* The identities a host can have returned up to now in a session answer to
\* a request bearing the token (the handle changes once: the handles reported
\* so far are the one at the start and the one reported now).
C30_Resolved(token) ==
    {AuthContext(SessionDid(token), HandleAt(t)) : t \in {0, now}}

\* C30: cache entries are bound to their token.  Every identity
\* validateToken(t) returns, from the cache or freshly resolved, and every
\* entry the cache holds for t, is an identity a host returned in a session
\* answer to a request bearing t; an identity resolved for one token is not
\* returned for another, in any interleaving of calls.  (SpecAuth)
C30_EntriesBoundToToken ==
    /\ \A r \in DOMAIN reqs :
          reqs[r].auth # NoAuth =>
             /\ HasBearer(reqs[r].header)
             /\ reqs[r].auth \in C30_Resolved(reqs[r].header.token)
             /\ \A t \in Tokens \ {reqs[r].header.token} : reqs[r].auth.did # SessionDid(t)
    /\ \A t \in Tokens :
          didCache[t] # NoEntry =>
             /\ AuthContext(didCache[t].did, didCache[t].handle) \in C30_Resolved(t)
             /\ didCache[t].handle = HandleAt(didCache[t].expires - CACHE_TTL)

\* Two calls in flight with different tokens, one answered from the cache and
\* one by a host, each with the identity of its own token, both entries cached.
C30_Witness ==
    \E r1, r2 \in DOMAIN reqs :
        /\ reqs[r1].hit /\ reqs[r1].auth # NoAuth
        /\ ~reqs[r2].hit /\ reqs[r2].auth # NoAuth
        /\ reqs[r1].header.token # reqs[r2].header.token
        /\ reqs[r1].auth.did # reqs[r2].auth.did
        /\ \A t \in Tokens : didCache[t] # NoEntry

====
